---- MODULE Spec2Model ----
(***************************************************************************)
(* Ordered-position maintenance of the kanban board backend                *)
(* (kiselevvn/trello-back): the Column / Task position allocation in       *)
(* board/models.py and the create, delete and move handlers of             *)
(* board/api/views.py, together with the ActivityLog rows they append.     *)
(*                                                                         *)
(* The handlers are modelled from the point where DRF's get_object() has   *)
(* resolved (or failed to resolve) the addressed row; authentication,      *)
(* permission classes and URL routing are outside the model (the queryset  *)
(* of ColumnViewSet filters on the board_id URL argument, so the column    *)
(* handlers are those of a route that supplies it).  Titles and the other  *)
(* free-text fields are not state of the model: a log entry names a row by *)
(* its primary key where the code records its title.                       *)
(*                                                                         *)
(* Specifications over the one variable list:                              *)
(*   Spec        create, delete and move requests from an empty database;  *)
(*   SpecMoves   concurrent move requests, one statement per step;         *)
(*   SpecEdits   every log-writing handler (update, archive, restore,      *)
(*               label, comment, member requests included);                *)
(*   SpecLabels  task create / update with label_ids, and task moves;      *)
(*   SpecDense   one move or delete request on every dense board;          *)
(*   SpecLocks   concurrent task moves against a store with row locks;     *)
(*   SpecCreates concurrent create requests, one statement per step;       *)
(*   SpecRace    one move request, statement by statement, beside deletes. *)
(***************************************************************************)
EXTENDS Integers, Sequences, FiniteSets, Bags, TLC

\* ------------------------------------------------------------------ bounds
\* Rows ever inserted per table (primary keys are never reused).
MaxBoards == 2
MaxColumns == 3
MaxTasks == 3
\* Largest "position" a move request carries (the smallest is -1).
MaxPosition == 2
\* Rows of the activity log after which no logging request is issued.
MaxLog == 6
\* Concurrent request workers, and the columns and tasks of the board they
\* work on.
MaxWorkers == 2
InitColumns == 2
InitTasks == 3
\* Label and Comment rows ever inserted, users, and the longest label_ids list.
MaxLabels == 2
MaxComments == 1
MaxUsers == 2
MaxLabelIds == 2
\* Column and Task rows ever inserted, the largest position of a request and
\* the rows of the activity log after which no request is issued, where every
\* handler is issued (NextEdits).
MaxEditColumns == 2
MaxEditTasks == 1
MaxEditPosition == 1
MaxEditLog == 4
\* The board of the moves under row locks: columns, tasks, and the largest
\* position a request names.
LockColumns == 2
LockTasks == 4
MaxLockPosition == 1

\* ------------------------------------------------------------------- state
VARIABLES
    boards,      \* Board rows: the set of primary keys
    columns,     \* Column rows: pk -> [board, position]
    tasks,       \* Task rows: pk -> [column, position]
    activity,    \* ActivityLog rows in insertion order
    nextBoard,   \* next primary key of Board
    nextColumn,  \* next primary key of Column
    nextTask,    \* next primary key of Task
    response,    \* the request served last and its HTTP status
    worker,      \* request workers running a move handler statement by statement
    txn,         \* the open transaction: its owner and its uncommitted tables
    is_archived, \* the primary keys of the Task rows with is_archived = True
    labels,      \* Label rows: pk -> [board]
    task_labels, \* TaskLabel rows: the bag of the pairs <<task, label>>
    nextLabel,   \* next primary key of Label
    comments,    \* Comment rows: pk -> [task]
    nextComment, \* next primary key of Comment
    members,     \* Board.members: the set of the pairs <<board, user>>
    issued       \* the committed Column and Task rows when the workers' requests were issued

\* The rows a task carries besides its column and position.
attached == <<is_archived, task_labels, comments>>

\* The tables only the board, label, comment and member handlers write.
others == <<labels, nextLabel, nextComment, members>>

vars == <<boards, columns, tasks, activity, nextBoard, nextColumn, nextTask, response,
          worker, txn, attached, others, issued>>

Max(S) == CHOOSE x \in S : \A y \in S : y <= x

\* HTTP statuses the handlers answer with.
HTTP_200_OK == 200
HTTP_201_CREATED == 201
HTTP_204_NO_CONTENT == 204
HTTP_400_BAD_REQUEST == 400
HTTP_404_NOT_FOUND == 404
HTTP_500_INTERNAL_SERVER_ERROR == 500

\* ---------------------------------------------------------------- queries
\* Column.objects.filter(board=b)
ColumnsOf(cols, b) == {c \in DOMAIN cols : cols[c].board = b}
\* Task.objects.filter(column=c)
TasksOf(tsks, c) == {t \in DOMAIN tsks : tsks[t].column = c}

\* .aggregate(Max('position'))['position__max']: <<>> stands for None.
position__max(S) == IF S = {} THEN <<>> ELSE <<Max(S)>>

\* Python's `v or d`: d when v is None or 0.
PyOr(v, d) == IF v = <<>> \/ v = <<0>> THEN d ELSE v[1]

\* Column.save() of a row without pk: self.position = (max_position or -1) + 1
Column_save(cols, b) ==
    PyOr(position__max({cols[c].position : c \in ColumnsOf(cols, b)}), -1) + 1

\* Task.save() of a row without pk: self.position = (max_position or -1) + 1
Task_save(tsks, c) ==
    PyOr(position__max({tsks[t].position : t \in TasksOf(tsks, c)}), -1) + 1

\* ActivityLog.ACTION_CHOICES: the action kinds the model enumerates.  The
\* choices of a field are checked by full_clean(), which objects.create()
\* does not call.
ACTION_CHOICES ==
    {"create_board", "update_board", "create_column", "update_column", "move_column",
     "create_task", "update_task", "move_task", "add_comment", "add_member",
     "remove_member"}

\* ActivityLog.objects.create(board=..., action=..., details=...)
ActivityLog_create(log, b, action, details) ==
    Append(log, [board |-> b, action |-> action, details |-> details])

\* Removal of the rows in S from a table.
Without(table, S) == [k \in DOMAIN table \ S |-> table[k]]

\* QuerySet.update(position=F('position') + delta) on the rows in S.
QuerySet_update(table, S, delta) ==
    [k \in DOMAIN table |->
        IF k \in S THEN [table[k] EXCEPT !.position = @ + delta] ELSE table[k]]

\* Model.save() of a loaded instance: every field of the row pk is written
\* from the instance (an UPDATE by pk, an INSERT when no row has that pk).
Model_save(table, pk, row) ==
    [k \in DOMAIN table \cup {pk} |-> IF k = pk THEN row ELSE table[k]]

\* on_delete=CASCADE of TaskLabel.task and TaskLabel.label: the TaskLabel rows
\* left when the tasks in T and the labels in L are deleted.
TaskLabel_cascade(rows, T, L) ==
    [p \in {q \in DOMAIN rows : q[1] \notin T /\ q[2] \notin L} |-> rows[p]]

\* on_delete=CASCADE of Comment.task: the Comment rows left when the tasks in T
\* are deleted.
Comment_cascade(rows, T) == Without(rows, {k \in DOMAIN rows : rows[k].task \in T})

\* The deletion of the Task rows in T: the rows go, with their is_archived
\* field, their TaskLabel rows and their Comment rows.
Task_delete(T) ==
    /\ tasks' = Without(tasks, T)
    /\ is_archived' = is_archived \ T
    /\ task_labels' = TaskLabel_cascade(task_labels, T, {})
    /\ comments' = Comment_cascade(comments, T)

\* TaskLabel.objects.create(task=t, label=l)
TaskLabel_create(rows, t, l) == rows (+) SetToBag({<<t, l>>})

\* unique_together = ['task', 'label']: the INSERT of a pair the table holds
\* raises IntegrityError.
TaskLabel_unique_together(rows, t, l) == ~BagIn(<<t, l>>, rows)

\* The label loop of TaskSerializer.create and TaskSerializer.update:
\*   for label_id in label_ids:
\*       try:    label = Label.objects.get(id=label_id)
\*               TaskLabel.objects.create(task=task, label=label)
\*       except Label.DoesNotExist: continue
\* The result is the TaskLabel table the loop leaves and whether it was left
\* by an IntegrityError, which the loop does not catch.
RECURSIVE TaskSerializer_add_labels(_, _, _, _)
TaskSerializer_add_labels(rows, lbls, t, label_ids) ==
    IF label_ids = <<>>
    THEN [task_labels |-> rows, raised |-> FALSE]
    ELSE LET label_id == Head(label_ids) IN
         IF label_id \notin DOMAIN lbls
         THEN TaskSerializer_add_labels(rows, lbls, t, Tail(label_ids))
         ELSE IF ~TaskLabel_unique_together(rows, t, label_id)
         THEN [task_labels |-> rows, raised |-> TRUE]
         ELSE TaskSerializer_add_labels(TaskLabel_create(rows, t, label_id),
                                        lbls, t, Tail(label_ids))

\* The response record of a request.
Response(op, pk, column_id, position, status) ==
    [op |-> op, pk |-> pk, column_id |-> column_id, position |-> position,
     status |-> status]

\* A request worker: the request it serves, the container that held the item
\* when the request was issued, its place in the handler, the instance
\* get_object() loaded, the HTTP status it answered with, and whether its row
\* writes (moved) and its log row (logged) are committed.
Workers == 1 .. MaxWorkers

Worker(op, pk, column_id, position, container) ==
    [op |-> op, pk |-> pk, column_id |-> column_id, position |-> position,
     container |-> container,
     pc |-> IF op = "none" THEN "done" ELSE "get_object",
     instance |-> [pk |-> 0], status |-> 0, moved |-> FALSE, logged |-> FALSE]

\* No worker serves a request: no rows are recorded.
NotIssued == [columns |-> <<>>, tasks |-> <<>>]

\* No transaction is open.
NoTransaction == [owner |-> 0]

\* ------------------------------------------------------------------- Init
Init ==
    /\ boards = {}
    /\ columns = <<>>
    /\ tasks = <<>>
    /\ activity = <<>>
    /\ nextBoard = 1
    /\ nextColumn = 1
    /\ nextTask = 1
    /\ response = Response("none", 0, 0, 0, 0)
    /\ worker = [w \in Workers |-> Worker("none", 0, 0, 0, 0)]
    /\ txn = NoTransaction
    /\ is_archived = {}
    /\ labels = <<>>
    /\ task_labels = EmptyBag
    /\ nextLabel = 1
    /\ comments = <<>>
    /\ nextComment = 1
    /\ members = {}
    /\ issued = NotIssued

\* ------------------------------------------------------------- BoardViewSet
\* BoardViewSet.perform_create
BoardViewSet_perform_create ==
    /\ nextBoard <= MaxBoards
    /\ Len(activity) < MaxLog
    /\ boards' = boards \cup {nextBoard}
    /\ nextBoard' = nextBoard + 1
    /\ activity' = ActivityLog_create(activity, nextBoard, "create_board",
                                      [board |-> nextBoard])
    /\ response' = Response("create_board", nextBoard, 0, 0, HTTP_201_CREATED)
    /\ UNCHANGED <<columns, tasks, nextColumn, nextTask, worker, txn, attached, others, issued>>

\* ------------------------------------------------------------ ColumnViewSet
\* ColumnViewSet.perform_create: serializer.save() runs Column.save().
ColumnViewSet_perform_create(b) ==
    /\ b \in boards
    /\ nextColumn <= MaxColumns
    /\ Len(activity) < MaxLog
    /\ LET position == Column_save(columns, b) IN
        /\ columns' = [c \in DOMAIN columns \cup {nextColumn} |->
                         IF c = nextColumn
                         THEN [board |-> b, position |-> position]
                         ELSE columns[c]]
        /\ activity' = ActivityLog_create(activity, b, "create_column",
                          [column |-> nextColumn, position |-> position])
    /\ nextColumn' = nextColumn + 1
    /\ response' = Response("create_column", nextColumn, 0, 0, HTTP_201_CREATED)
    /\ UNCHANGED <<boards, tasks, nextBoard, nextTask, worker, txn, attached, others, issued>>

\* A perform_destroy that closes the gap: the columns of the board above the
\* deleted one move down by one.
ColumnViewSet_perform_destroy_compacting(c) ==
    /\ c \in DOMAIN columns
    /\ Len(activity) < MaxLog
    /\ activity' = ActivityLog_create(activity, columns[c].board, "delete_column",
                                      [column |-> c])
    /\ columns' = QuerySet_update(Without(columns, {c}),
                      {d \in ColumnsOf(columns, columns[c].board) \ {c} :
                          columns[d].position > columns[c].position}, -1)
    /\ Task_delete(TasksOf(tasks, c))
    /\ response' = Response("delete_column", c, 0, 0, HTTP_204_NO_CONTENT)
    /\ UNCHANGED <<boards, nextBoard, nextColumn, nextTask, worker, txn, others, issued>>

\* ColumnViewSet.perform_destroy: the log row, then instance.delete(), which
\* cascades to the column's tasks (Task.column is on_delete=CASCADE).
ColumnViewSet_perform_destroy(c) ==
    /\ c \in DOMAIN columns
    /\ Len(activity) < MaxLog
    /\ activity' = ActivityLog_create(activity, columns[c].board, "delete_column",
                                      [column |-> c])
    /\ columns' = Without(columns, {c})
    /\ Task_delete(TasksOf(tasks, c))
    /\ response' = Response("delete_column", c, 0, 0, HTTP_204_NO_CONTENT)
    /\ UNCHANGED <<boards, nextBoard, nextColumn, nextTask, worker, txn, others, issued>>

\* ColumnMoveSerializer: position = IntegerField(min_value=0)
ColumnMoveSerializer_is_valid(position) == position >= 0

\* A sibling UPDATE with the bounds of the two ranges exchanged: position__gt
\* the target when moving up, position__lt the target when moving down.
ColumnViewSet_move_update_exclusive(cols, column, new_position) ==
    IF new_position < column.position
    THEN QuerySet_update(cols,
            {c \in ColumnsOf(cols, column.board) :
                /\ cols[c].position > new_position
                /\ cols[c].position < column.position}, 1)
    ELSE QuerySet_update(cols,
            {c \in ColumnsOf(cols, column.board) :
                /\ cols[c].position > column.position
                /\ cols[c].position < new_position}, -1)

\* A sibling UPDATE whose moving-down range starts at the moved column's own
\* position: position__gte the old position, not position__gt.
ColumnViewSet_move_update_from_old(cols, column, new_position) ==
    IF new_position < column.position
    THEN QuerySet_update(cols,
            {c \in ColumnsOf(cols, column.board) :
                /\ cols[c].position >= new_position
                /\ cols[c].position < column.position}, 1)
    ELSE QuerySet_update(cols,
            {c \in ColumnsOf(cols, column.board) :
                /\ cols[c].position >= column.position
                /\ cols[c].position <= new_position}, -1)

\* The sibling UPDATE of ColumnViewSet.move, for the loaded instance
\* `column` = [pk, board, position] and the validated target: one of
\*   filter(board, position__gte=new, position__lt=old).update(F + 1)
\*   filter(board, position__gt=old, position__lte=new).update(F - 1)
ColumnViewSet_move_update(cols, column, new_position) ==
    IF new_position < column.position
    THEN QuerySet_update(cols,
            {c \in ColumnsOf(cols, column.board) :
                /\ cols[c].position >= new_position
                /\ cols[c].position < column.position}, 1)
    ELSE QuerySet_update(cols,
            {c \in ColumnsOf(cols, column.board) :
                /\ cols[c].position > column.position
                /\ cols[c].position <= new_position}, -1)

\* column.position = new_position; column.save()
ColumnViewSet_move_save(cols, column, new_position) ==
    Model_save(cols, column.pk, [board |-> column.board, position |-> new_position])

\* The atomic block of ColumnViewSet.move: the sibling UPDATE, then the save.
ColumnViewSet_move_rows(cols, column, new_position) ==
    ColumnViewSet_move_save(
        ColumnViewSet_move_update(cols, column, new_position), column, new_position)

\* The log row of ColumnViewSet.move: 'from_position' is read from
\* column.position after the assignment column.position = new_position.
ColumnViewSet_move_log(log, column, new_position) ==
    ActivityLog_create(log, column.board, "move_column",
        [column |-> column.pk,
         from_position |-> new_position,
         to_position |-> new_position])

\* ColumnViewSet.move
ColumnViewSet_move(pk, position) ==
    /\ Len(activity) < MaxLog
    /\ IF pk \notin DOMAIN columns
       THEN /\ response' = Response("move_column", pk, 0, position, HTTP_404_NOT_FOUND)
            /\ UNCHANGED <<columns, activity>>
       ELSE IF ~ColumnMoveSerializer_is_valid(position)
       THEN /\ response' = Response("move_column", pk, 0, position, HTTP_400_BAD_REQUEST)
            /\ UNCHANGED <<columns, activity>>
       ELSE LET column == [pk |-> pk, board |-> columns[pk].board,
                           position |-> columns[pk].position] IN
            /\ columns' = ColumnViewSet_move_rows(columns, column, position)
            /\ activity' = ColumnViewSet_move_log(activity, column, position)
            /\ response' = Response("move_column", pk, 0, position, HTTP_200_OK)
    /\ UNCHANGED <<boards, tasks, nextBoard, nextColumn, nextTask, worker, txn, attached, others, issued>>

\* -------------------------------------------------------------- TaskViewSet
\* TaskViewSet.perform_create: serializer.save() runs TaskSerializer.create,
\* that is Task.save() and then the label loop; an IntegrityError of the loop
\* ends the request before the log row, with the rows written so far in place
\* (no transaction encloses the handler).
TaskViewSet_perform_create(c, label_ids) ==
    /\ c \in DOMAIN columns
    /\ nextTask <= MaxTasks
    /\ Len(activity) < MaxLog
    /\ LET position == Task_save(tasks, c)
           added == TaskSerializer_add_labels(task_labels, labels, nextTask, label_ids)
       IN
        /\ tasks' = [t \in DOMAIN tasks \cup {nextTask} |->
                        IF t = nextTask
                        THEN [column |-> c, position |-> position]
                        ELSE tasks[t]]
        /\ task_labels' = added.task_labels
        /\ IF added.raised
           THEN /\ activity' = activity
                /\ response' = Response("create_task", nextTask, c, 0,
                                        HTTP_500_INTERNAL_SERVER_ERROR)
           ELSE /\ activity' = ActivityLog_create(activity, columns[c].board,
                                  "create_task", [task_id |-> nextTask, column |-> c])
                /\ response' = Response("create_task", nextTask, c, 0, HTTP_201_CREATED)
    /\ nextTask' = nextTask + 1
    /\ UNCHANGED <<boards, columns, nextBoard, nextColumn, worker, txn,
                   is_archived, comments, others, issued>>

\* TaskViewSet.perform_destroy
TaskViewSet_perform_destroy(t) ==
    /\ t \in DOMAIN tasks
    /\ Len(activity) < MaxLog
    /\ activity' = ActivityLog_create(activity, columns[tasks[t].column].board,
                                      "delete_task", [task_id |-> t])
    /\ Task_delete({t})
    /\ response' = Response("delete_task", t, 0, 0, HTTP_204_NO_CONTENT)
    /\ UNCHANGED <<boards, columns, nextBoard, nextColumn, nextTask, worker, txn, others, issued>>

\* TaskMoveSerializer: position = IntegerField(min_value=0) and
\* validate_column_id, which raises ValidationError for an unknown column.
TaskMoveSerializer_is_valid(cols, column_id, position) ==
    /\ position >= 0
    /\ column_id \in DOMAIN cols

\* The first UPDATE of TaskViewSet.move, for the loaded instance `task` =
\* [pk, column, position], the target column and new_position:
\*   across columns  filter(column=old, position__gt=old_position).update(F - 1)
\*   moving up       filter(column=old, position__gte=new, position__lt=old).update(F + 1)
\*   otherwise       filter(column=old, position__gt=old, position__lte=new).update(F - 1)
TaskViewSet_move_update_old(tsks, task, new_column, new_position) ==
    LET old_column == task.column
        old_position == task.position
    IN IF old_column # new_column
       THEN QuerySet_update(tsks,
               {t \in TasksOf(tsks, old_column) : tsks[t].position > old_position}, -1)
       ELSE IF new_position < old_position
       THEN QuerySet_update(tsks,
               {t \in TasksOf(tsks, old_column) :
                   /\ tsks[t].position >= new_position
                   /\ tsks[t].position < old_position}, 1)
       ELSE QuerySet_update(tsks,
               {t \in TasksOf(tsks, old_column) :
                   /\ tsks[t].position > old_position
                   /\ tsks[t].position <= new_position}, -1)

\* The second UPDATE, of the cross-column branch only:
\*   filter(column=new_column, position__gte=new_position).update(F + 1)
TaskViewSet_move_update_new(tsks, task, new_column, new_position) ==
    IF task.column # new_column
    THEN QuerySet_update(tsks,
            {t \in TasksOf(tsks, new_column) : tsks[t].position >= new_position}, 1)
    ELSE tsks

\* A save that stores the task at the position before new_position.
TaskViewSet_move_save_before(tsks, task, new_column, new_position) ==
    Model_save(tsks, task.pk, [column |-> new_column, position |-> new_position - 1])

\* task.column = new_column; task.position = new_position; task.save()
TaskViewSet_move_save(tsks, task, new_column, new_position) ==
    Model_save(tsks, task.pk, [column |-> new_column, position |-> new_position])

\* The row writes of the atomic block of TaskViewSet.move, in program order.
TaskViewSet_move_rows(tsks, task, new_column, new_position) ==
    TaskViewSet_move_save(
        TaskViewSet_move_update_new(
            TaskViewSet_move_update_old(tsks, task, new_column, new_position),
            task, new_column, new_position),
        task, new_column, new_position)

\* The log row of TaskViewSet.move: created in the cross-column branch only.
TaskViewSet_move_log(log, cols, task, new_column, new_position) ==
    IF task.column # new_column
    THEN ActivityLog_create(log, cols[new_column].board, "move_task",
            [task_id |-> task.pk,
             from_column |-> task.column,
             to_column |-> new_column,
             from_position |-> task.position,
             to_position |-> new_position])
    ELSE log

\* TaskViewSet.move
TaskViewSet_move(pk, column_id, position) ==
    /\ Len(activity) < MaxLog
    /\ IF pk \notin DOMAIN tasks
       THEN /\ response' = Response("move_task", pk, column_id, position, HTTP_404_NOT_FOUND)
            /\ UNCHANGED <<tasks, activity>>
       ELSE IF ~TaskMoveSerializer_is_valid(columns, column_id, position)
       THEN /\ response' = Response("move_task", pk, column_id, position, HTTP_400_BAD_REQUEST)
            /\ UNCHANGED <<tasks, activity>>
       ELSE IF column_id \notin DOMAIN columns
       THEN /\ response' = Response("move_task", pk, column_id, position, HTTP_404_NOT_FOUND)
            /\ UNCHANGED <<tasks, activity>>
       ELSE LET task == [pk |-> pk, column |-> tasks[pk].column,
                         position |-> tasks[pk].position]
                new_position == position + 1
            IN
            /\ tasks' = TaskViewSet_move_rows(tasks, task, column_id, new_position)
            /\ activity' = TaskViewSet_move_log(activity, columns, task, column_id, new_position)
            /\ response' = Response("move_task", pk, column_id, position, HTTP_200_OK)
    /\ UNCHANGED <<boards, columns, nextBoard, nextColumn, nextTask, worker, txn, attached, others, issued>>

\* ------------------------------------------------- update and delete
\* Titles (and a task's assignee) are not state of the model: an update
\* request carries title_changed, whether the title (or assignee) it submits
\* differs from the stored one, and the values of the fields the model holds
\* (a PATCH that omits a field is the PUT that repeats its stored value).

\* BoardViewSet.perform_update: a log row when the title changed.
BoardViewSet_perform_update(b, title_changed) ==
    /\ Len(activity) < MaxLog
    /\ IF b \notin boards
       THEN /\ response' = Response("update_board", b, 0, 0, HTTP_404_NOT_FOUND)
            /\ UNCHANGED activity
       ELSE /\ activity' = IF title_changed
                           THEN ActivityLog_create(activity, b, "update_board",
                                                   [board |-> b])
                           ELSE activity
            /\ response' = Response("update_board", b, 0, 0, HTTP_200_OK)
    /\ UNCHANGED <<boards, columns, tasks, nextBoard, nextColumn, nextTask, worker, txn,
                   attached, others, issued>>

\* A perform_destroy whose cascade spares the activity rows of the board.
BoardViewSet_perform_destroy_keeping_log(b) ==
    /\ b \in boards
    /\ Len(activity) < MaxLog
    /\ LET C == ColumnsOf(columns, b)
           T == {t \in DOMAIN tasks : tasks[t].column \in C}
           L == {l \in DOMAIN labels : labels[l].board = b}
       IN /\ boards' = boards \ {b}
          /\ columns' = Without(columns, C)
          /\ tasks' = Without(tasks, T)
          /\ is_archived' = is_archived \ T
          /\ comments' = Comment_cascade(comments, T)
          /\ labels' = Without(labels, L)
          /\ task_labels' = TaskLabel_cascade(task_labels, T, L)
          /\ members' = {m \in members : m[1] # b}
          /\ activity' = ActivityLog_create(activity, b, "delete_board", [board |-> b])
    /\ response' = Response("delete_board", b, 0, 0, HTTP_204_NO_CONTENT)
    /\ UNCHANGED <<nextBoard, nextColumn, nextTask, worker, txn, nextLabel, nextComment, issued>>

\* BoardViewSet.perform_destroy: the log row, then instance.delete(), which
\* cascades to the board's columns and their tasks, its labels, its member
\* links and its activity rows (ActivityLog.board is on_delete=CASCADE).
BoardViewSet_perform_destroy(b) ==
    /\ b \in boards
    /\ Len(activity) < MaxLog
    /\ LET logged == ActivityLog_create(activity, b, "delete_board", [board |-> b])
           C == ColumnsOf(columns, b)
           T == {t \in DOMAIN tasks : tasks[t].column \in C}
           L == {l \in DOMAIN labels : labels[l].board = b}
       IN /\ boards' = boards \ {b}
          /\ columns' = Without(columns, C)
          /\ tasks' = Without(tasks, T)
          /\ is_archived' = is_archived \ T
          /\ comments' = Comment_cascade(comments, T)
          /\ labels' = Without(labels, L)
          /\ task_labels' = TaskLabel_cascade(task_labels, T, L)
          /\ members' = {m \in members : m[1] # b}
          /\ activity' = SelectSeq(logged, LAMBDA e : e.board # b)
    /\ response' = Response("delete_board", b, 0, 0, HTTP_204_NO_CONTENT)
    /\ UNCHANGED <<nextBoard, nextColumn, nextTask, worker, txn, nextLabel, nextComment, issued>>

\* ColumnSerializer: board is a primary key of Board, position is the
\* PositiveIntegerField of the model (min_value=0); both are writable.
ColumnSerializer_is_valid(bds, data) ==
    /\ data.board \in bds
    /\ data.position >= 0

\* ColumnViewSet.perform_update: serializer.save() writes the validated
\* fields (Column.save() sets position only for a row without pk), then a log
\* row when the title changed.
ColumnViewSet_perform_update(pk, data) ==
    /\ Len(activity) < MaxLog
    /\ IF pk \notin DOMAIN columns
       THEN /\ response' = Response("update_column", pk, 0, data.position,
                                    HTTP_404_NOT_FOUND)
            /\ UNCHANGED <<columns, activity>>
       ELSE IF ~ColumnSerializer_is_valid(boards, data)
       THEN /\ response' = Response("update_column", pk, 0, data.position,
                                    HTTP_400_BAD_REQUEST)
            /\ UNCHANGED <<columns, activity>>
       ELSE /\ columns' = Model_save(columns, pk,
                             [board |-> data.board, position |-> data.position])
            /\ activity' = IF data.title_changed
                           THEN ActivityLog_create(activity, data.board, "update_column",
                                                   [column |-> pk])
                           ELSE activity
            /\ response' = Response("update_column", pk, 0, data.position, HTTP_200_OK)
    /\ UNCHANGED <<boards, tasks, nextBoard, nextColumn, nextTask, worker, txn,
                   attached, others, issued>>

\* None, and a present value v, of an optional request field.
None == <<>>
Some(v) == <<v>>

\* TaskSerializer: column is a primary key of Column, position is the
\* PositiveIntegerField of the model (min_value=0); both are writable, as is
\* is_archived.
TaskSerializer_is_valid(cols, data) ==
    /\ data.column \in DOMAIN cols
    /\ data.position >= 0

\* TaskViewSet.perform_update: serializer.save() runs TaskSerializer.update,
\* that is the write of the validated fields and, when label_ids is given, the
\* deletion of the task's TaskLabel rows and the label loop; then a log row
\* when the title, the column or the assignee changed.  An IntegrityError of
\* the loop ends the request with the rows written so far in place.
TaskViewSet_perform_update(pk, data) ==
    /\ Len(activity) < MaxLog
    /\ IF pk \notin DOMAIN tasks
       THEN /\ response' = Response("update_task", pk, data.column, data.position,
                                    HTTP_404_NOT_FOUND)
            /\ UNCHANGED <<tasks, is_archived, task_labels, activity>>
       ELSE IF ~TaskSerializer_is_valid(columns, data)
       THEN /\ response' = Response("update_task", pk, data.column, data.position,
                                    HTTP_400_BAD_REQUEST)
            /\ UNCHANGED <<tasks, is_archived, task_labels, activity>>
       ELSE LET old_data == tasks[pk]
                added == IF data.label_ids = None
                         THEN [task_labels |-> task_labels, raised |-> FALSE]
                         ELSE TaskSerializer_add_labels(
                                  TaskLabel_cascade(task_labels, {pk}, {}),
                                  labels, pk, data.label_ids[1])
            IN
            /\ tasks' = Model_save(tasks, pk,
                           [column |-> data.column, position |-> data.position])
            /\ is_archived' = IF data.is_archived
                              THEN is_archived \cup {pk}
                              ELSE is_archived \ {pk}
            /\ task_labels' = added.task_labels
            /\ IF added.raised
               THEN /\ activity' = activity
                    /\ response' = Response("update_task", pk, data.column,
                                            data.position, HTTP_500_INTERNAL_SERVER_ERROR)
               ELSE /\ activity' =
                          IF data.title_changed \/ old_data.column # data.column
                          THEN ActivityLog_create(activity, columns[data.column].board,
                                   "update_task", [task_id |-> pk])
                          ELSE activity
                    /\ response' = Response("update_task", pk, data.column,
                                            data.position, HTTP_200_OK)
    /\ UNCHANGED <<boards, columns, nextBoard, nextColumn, nextTask, worker, txn,
                   comments, others, issued>>

\* TaskViewSet.archive: is_archived = True, task.save(), a log row.
TaskViewSet_archive(pk) ==
    /\ Len(activity) < MaxLog
    /\ IF pk \notin DOMAIN tasks
       THEN /\ response' = Response("archive_task", pk, 0, 0, HTTP_404_NOT_FOUND)
            /\ UNCHANGED <<is_archived, activity>>
       ELSE /\ is_archived' = is_archived \cup {pk}
            /\ activity' = ActivityLog_create(activity, columns[tasks[pk].column].board,
                              "archive_task", [task_id |-> pk])
            /\ response' = Response("archive_task", pk, 0, 0, HTTP_200_OK)
    /\ UNCHANGED <<boards, columns, tasks, nextBoard, nextColumn, nextTask, worker, txn,
                   task_labels, comments, others, issued>>

\* TaskViewSet.restore: is_archived = False, task.save(); no log row.
TaskViewSet_restore(pk) ==
    /\ IF pk \notin DOMAIN tasks
       THEN /\ response' = Response("restore_task", pk, 0, 0, HTTP_404_NOT_FOUND)
            /\ UNCHANGED is_archived
       ELSE /\ is_archived' = is_archived \ {pk}
            /\ response' = Response("restore_task", pk, 0, 0, HTTP_200_OK)
    /\ UNCHANGED <<boards, columns, tasks, activity, nextBoard, nextColumn, nextTask,
                   worker, txn, task_labels, comments, others, issued>>

\* ------------------------------------------- labels, comments, members
\* LabelViewSet.perform_create: serializer.save(), no log row.
LabelViewSet_perform_create(b) ==
    /\ b \in boards
    /\ nextLabel <= MaxLabels
    /\ labels' = Model_save(labels, nextLabel, [board |-> b])
    /\ nextLabel' = nextLabel + 1
    /\ response' = Response("create_label", nextLabel, 0, 0, HTTP_201_CREATED)
    /\ UNCHANGED <<boards, columns, tasks, activity, nextBoard, nextColumn, nextTask,
                   worker, txn, attached, nextComment, members, issued>>

\* CommentViewSet.perform_create: serializer.save(author=...), a log row.
CommentViewSet_perform_create(t) ==
    /\ t \in DOMAIN tasks
    /\ nextComment <= MaxComments
    /\ Len(activity) < MaxLog
    /\ comments' = Model_save(comments, nextComment, [task |-> t])
    /\ nextComment' = nextComment + 1
    /\ activity' = ActivityLog_create(activity, columns[tasks[t].column].board,
                      "add_comment", [task_id |-> t, comment_id |-> nextComment])
    /\ response' = Response("add_comment", nextComment, 0, 0, HTTP_201_CREATED)
    /\ UNCHANGED <<boards, columns, tasks, nextBoard, nextColumn, nextTask, worker, txn,
                   is_archived, task_labels, labels, nextLabel, members, issued>>

\* The users; user 1 issues the requests and owns every board.
Users == 1 .. MaxUsers
request_user == 1

\* BoardMembersAPIView.post; user_id 0 stands for a request without user_id.
BoardMembersAPIView_post(board_id, user_id) ==
    /\ Len(activity) < MaxLog
    /\ IF board_id \notin boards
       THEN /\ response' = Response("add_member", board_id, 0, 0, HTTP_404_NOT_FOUND)
            /\ UNCHANGED <<members, activity>>
       ELSE IF user_id = 0
       THEN /\ response' = Response("add_member", board_id, 0, 0, HTTP_400_BAD_REQUEST)
            /\ UNCHANGED <<members, activity>>
       ELSE IF user_id \notin Users
       THEN /\ response' = Response("add_member", board_id, 0, 0, HTTP_404_NOT_FOUND)
            /\ UNCHANGED <<members, activity>>
       ELSE IF user_id = request_user
       THEN /\ response' = Response("add_member", board_id, 0, 0, HTTP_400_BAD_REQUEST)
            /\ UNCHANGED <<members, activity>>
       ELSE /\ members' = members \cup {<<board_id, user_id>>}
            /\ activity' = ActivityLog_create(activity, board_id, "add_member",
                              [member_id |-> user_id])
            /\ response' = Response("add_member", board_id, 0, 0, HTTP_201_CREATED)
    /\ UNCHANGED <<boards, columns, tasks, nextBoard, nextColumn, nextTask, worker, txn,
                   attached, labels, nextLabel, nextComment, issued>>

\* ------------------------------------------------------------------- Next
Positions == -1 .. MaxPosition

Next ==
    \/ BoardViewSet_perform_create
    \/ \E b \in 1 .. MaxBoards : ColumnViewSet_perform_create(b)
    \/ \E c \in 1 .. MaxColumns : ColumnViewSet_perform_destroy(c)
    \/ \E c \in 1 .. MaxColumns, p \in Positions : ColumnViewSet_move(c, p)
    \/ \E c \in 1 .. MaxColumns : TaskViewSet_perform_create(c, <<>>)
    \/ \E t \in 1 .. MaxTasks : TaskViewSet_perform_destroy(t)
    \/ \E t \in 1 .. MaxTasks, c \in 1 .. MaxColumns, p \in Positions :
          TaskViewSet_move(t, c, p)

Spec == Init /\ [][Next]_vars

\* ------------------------------------------------------ every handler
\* BoardMembersAPIView.delete: the member link goes, a log row is appended.
BoardMembersAPIView_delete(board_id, user_id) ==
    /\ Len(activity) < MaxLog
    /\ IF board_id \notin boards
       THEN /\ response' = Response("remove_member", board_id, 0, 0, HTTP_404_NOT_FOUND)
            /\ UNCHANGED <<members, activity>>
       ELSE IF <<board_id, user_id>> \notin members
       THEN /\ response' = Response("remove_member", board_id, 0, 0, HTTP_400_BAD_REQUEST)
            /\ UNCHANGED <<members, activity>>
       ELSE /\ members' = members \ {<<board_id, user_id>>}
            /\ activity' = ActivityLog_create(activity, board_id, "remove_member",
                              [member_id |-> user_id])
            /\ response' = Response("remove_member", board_id, 0, 0, HTTP_200_OK)
    /\ UNCHANGED <<boards, columns, tasks, nextBoard, nextColumn, nextTask, worker, txn,
                   attached, labels, nextLabel, nextComment, issued>>

\* The requests of NextEdits: the rows they create and address, the
\* positions they carry, and the bodies of the updates, which leave the
\* labels alone.
EditColumns == 1 .. MaxEditColumns
EditTasks == 1 .. MaxEditTasks
EditPositions == -1 .. MaxEditPosition
ColumnData == [title_changed : BOOLEAN, board : 1 .. MaxBoards, position : EditPositions]
TaskData == [title_changed : BOOLEAN, column : EditColumns, position : EditPositions,
             is_archived : BOOLEAN, label_ids : {None}]

\* A request is issued while the activity log is short of MaxEditLog rows.
Issued == Len(activity) < MaxEditLog

\* Every handler that writes the board, column, task, comment, member or
\* activity tables, one request at a time.
NextEdits ==
    \/ Issued /\ BoardViewSet_perform_create
    \/ \E b \in 1 .. MaxBoards, title_changed \in BOOLEAN :
          Issued /\ BoardViewSet_perform_update(b, title_changed)
    \/ \E b \in 1 .. MaxBoards : Issued /\ BoardViewSet_perform_destroy(b)
    \/ \E b \in 1 .. MaxBoards :
          Issued /\ nextColumn <= MaxEditColumns /\ ColumnViewSet_perform_create(b)
    \/ \E c \in EditColumns, data \in ColumnData :
          Issued /\ ColumnViewSet_perform_update(c, data)
    \/ \E c \in EditColumns : Issued /\ ColumnViewSet_perform_destroy(c)
    \/ \E c \in EditColumns, p \in EditPositions : Issued /\ ColumnViewSet_move(c, p)
    \/ \E c \in EditColumns :
          Issued /\ nextTask <= MaxEditTasks /\ TaskViewSet_perform_create(c, <<>>)
    \/ \E t \in EditTasks, data \in TaskData :
          Issued /\ TaskViewSet_perform_update(t, data)
    \/ \E t \in EditTasks : Issued /\ TaskViewSet_perform_destroy(t)
    \/ \E t \in EditTasks, c \in EditColumns, p \in EditPositions :
          Issued /\ TaskViewSet_move(t, c, p)
    \/ \E t \in EditTasks : Issued /\ TaskViewSet_archive(t)
    \/ \E t \in EditTasks : Issued /\ TaskViewSet_restore(t)
    \/ \E t \in EditTasks : Issued /\ CommentViewSet_perform_create(t)
    \/ \E b \in 1 .. MaxBoards, u \in 0 .. MaxUsers + 1 :
          Issued /\ BoardMembersAPIView_post(b, u)
    \/ \E b \in 1 .. MaxBoards, u \in 0 .. MaxUsers :
          Issued /\ BoardMembersAPIView_delete(b, u)

SpecEdits == Init /\ [][NextEdits]_vars

\* ------------------------------------------------- moves on dense boards
\* The tables of n columns of board 1 that hold the positions 0 .. n-1.
DenseColumns(n) ==
    {cols \in [1 .. n -> [board : {1}, position : 0 .. n - 1]] :
        Cardinality({cols[c].position : c \in DOMAIN cols}) = n}

\* The tables of m tasks in n columns that hold, in every column, the
\* positions 0 .. k-1 for its k tasks.
DenseTasks(n, m) ==
    {tsks \in [1 .. m -> [column : 1 .. n, position : 0 .. m - 1]] :
        \A c \in 1 .. n :
           LET S == {t \in DOMAIN tsks : tsks[t].column = c} IN
           /\ {tsks[t].position : t \in S} = 0 .. Cardinality(S) - 1
           /\ \A t, u \in S : tsks[t].position = tsks[u].position => t = u}

\* A board of MaxColumns columns and MaxTasks tasks with dense positions; the
\* log rows of the requests that built it are left out (a move reads none).
InitDense ==
    /\ boards = {1}
    /\ columns \in DenseColumns(MaxColumns)
    /\ tasks \in DenseTasks(MaxColumns, MaxTasks)
    /\ activity = <<>>
    /\ nextBoard = 2
    /\ nextColumn = MaxColumns + 1
    /\ nextTask = MaxTasks + 1
    /\ response = Response("none", 0, 0, 0, 0)
    /\ worker = [w \in Workers |-> Worker("none", 0, 0, 0, 0)]
    /\ txn = NoTransaction
    /\ is_archived = {}
    /\ labels = <<>>
    /\ task_labels = EmptyBag
    /\ nextLabel = 1
    /\ comments = <<>>
    /\ nextComment = 1
    /\ members = {}
    /\ issued = NotIssued

\* One move or delete request on the board.
NextDense ==
    \/ \E c \in 1 .. MaxColumns, p \in Positions :
          response.op = "none" /\ ColumnViewSet_move(c, p)
    \/ \E t \in 1 .. MaxTasks, c \in 1 .. MaxColumns, p \in Positions :
          response.op = "none" /\ TaskViewSet_move(t, c, p)
    \/ \E c \in 1 .. MaxColumns :
          response.op = "none" /\ ColumnViewSet_perform_destroy(c)
    \/ \E t \in 1 .. MaxTasks :
          response.op = "none" /\ TaskViewSet_perform_destroy(t)

SpecDense == InitDense /\ [][NextDense]_vars

\* ---------------------------------------------------------------- labels
\* The label_ids lists of a request: up to MaxLabelIds primary keys of Label.
LabelIds == UNION {[1 .. n -> 1 .. MaxLabels] : n \in 0 .. MaxLabelIds}

\* The body of a PATCH of task t that submits a column and, or, label_ids.
TaskPatch(t, column, label_ids) ==
    [title_changed |-> FALSE, column |-> column, position |-> tasks[t].position,
     is_archived |-> t \in is_archived, label_ids |-> label_ids]

\* The handlers that create boards, columns and labels, and those that write
\* tasks and their labels, one request at a time.
NextLabels ==
    \/ BoardViewSet_perform_create
    \/ \E b \in 1 .. MaxBoards :
          nextColumn <= MaxEditColumns /\ ColumnViewSet_perform_create(b)
    \/ \E b \in 1 .. MaxBoards : LabelViewSet_perform_create(b)
    \/ \E c \in EditColumns, label_ids \in LabelIds :
          nextTask <= MaxEditTasks /\ TaskViewSet_perform_create(c, label_ids)
    \/ \E t \in DOMAIN tasks, c \in EditColumns,
          label_ids \in {None} \cup {Some(l) : l \in LabelIds} :
          TaskViewSet_perform_update(t, TaskPatch(t, c, label_ids))
    \/ \E t \in EditTasks, c \in EditColumns, p \in 0 .. MaxEditPosition :
          TaskViewSet_move(t, c, p)

SpecLabels == Init /\ [][NextLabels]_vars

\* ------------------------------------------------------- concurrent moves
\* Two request workers serve one move request each against a populated board.
\* Each step below is one database statement of the handler.  The store runs
\* one writing transaction at a time: the first UPDATE of an atomic block opens
\* the transaction, its writes stay in txn until the commit, a write of another
\* worker waits for that commit, and a read sees committed rows only.  Every
\* backend Django supports admits these schedules.

database == <<boards, columns, tasks, activity>>

\* self.get_object(): the instance is loaded from the committed rows, before
\* and outside the atomic block.
GetObject(w) ==
    /\ worker[w].pc = "get_object"
    /\ LET r == worker[w] IN
       worker' = [worker EXCEPT ![w] =
          IF r.op = "move_column"
          THEN IF r.pk \in DOMAIN columns
               THEN [r EXCEPT !.pc = "is_valid",
                              !.instance = [pk |-> r.pk,
                                            board |-> columns[r.pk].board,
                                            position |-> columns[r.pk].position]]
               ELSE [r EXCEPT !.pc = "done", !.status = HTTP_404_NOT_FOUND]
          ELSE IF r.pk \in DOMAIN tasks
               THEN [r EXCEPT !.pc = "is_valid",
                              !.instance = [pk |-> r.pk,
                                            column |-> tasks[r.pk].column,
                                            position |-> tasks[r.pk].position]]
               ELSE [r EXCEPT !.pc = "done", !.status = HTTP_404_NOT_FOUND]]
    /\ UNCHANGED <<attached, others, database, nextBoard, nextColumn, nextTask, response, txn, issued>>

\* new_position of the handler: the validated position for a column, the
\* validated position + 1 for a task.
new_position(r) == IF r.op = "move_column" THEN r.position ELSE r.position + 1

\* The handler takes the cross-column branch (old_column != new_column).
CrossColumn(r) == r.op = "move_task" /\ r.instance.column # r.column_id

\* serializer.is_valid(), and Column.objects.get(id=column_id) of TaskViewSet.move
IsValid(w) ==
    /\ worker[w].pc = "is_valid"
    /\ worker' = [worker EXCEPT ![w] =
          IF @.op = "move_column"
          THEN IF ColumnMoveSerializer_is_valid(@.position)
               THEN [@ EXCEPT !.pc = "update_old"]
               ELSE [@ EXCEPT !.pc = "done", !.status = HTTP_400_BAD_REQUEST]
          ELSE IF ~TaskMoveSerializer_is_valid(columns, @.column_id, @.position)
               THEN [@ EXCEPT !.pc = "done", !.status = HTTP_400_BAD_REQUEST]
               ELSE IF @.column_id \notin DOMAIN columns
               THEN [@ EXCEPT !.pc = "done", !.status = HTTP_404_NOT_FOUND]
               ELSE [@ EXCEPT !.pc = "update_old"]]
    /\ UNCHANGED <<attached, others, database, nextBoard, nextColumn, nextTask, response, txn, issued>>

\* A first UPDATE that is committed on its own, as it is outside an atomic
\* block: its rows are written to the committed tables at once.
UpdateOld_autocommit(w) ==
    /\ worker[w].pc = "update_old"
    /\ txn.owner = 0
    /\ LET r == worker[w]
           cols == IF r.op = "move_column"
                   THEN ColumnViewSet_move_update(columns, r.instance, new_position(r))
                   ELSE columns
           tsks == IF r.op = "move_task"
                   THEN TaskViewSet_move_update_old(tasks, r.instance,
                                                    r.column_id, new_position(r))
                   ELSE tasks
       IN
       /\ columns' = cols
       /\ tasks' = tsks
       /\ txn' = [owner |-> w, columns |-> cols, tasks |-> tsks, activity |-> activity]
       /\ worker' = [worker EXCEPT ![w].pc =
                        IF CrossColumn(r) THEN "update_new" ELSE "save"]
    /\ UNCHANGED <<attached, others, boards, activity, nextBoard, nextColumn, nextTask,
                   response, issued>>

\* The first UPDATE inside transaction.atomic(): it opens the transaction.
UpdateOld(w) ==
    /\ worker[w].pc = "update_old"
    /\ txn.owner = 0
    /\ LET r == worker[w] IN
       /\ txn' = [owner |-> w,
                  columns |-> IF r.op = "move_column"
                              THEN ColumnViewSet_move_update(columns, r.instance,
                                                             new_position(r))
                              ELSE columns,
                  tasks |-> IF r.op = "move_task"
                            THEN TaskViewSet_move_update_old(tasks, r.instance,
                                                             r.column_id, new_position(r))
                            ELSE tasks,
                  activity |-> activity]
       /\ worker' = [worker EXCEPT ![w].pc =
                        IF CrossColumn(r) THEN "update_new" ELSE "save"]
    /\ UNCHANGED <<attached, others, database, nextBoard, nextColumn, nextTask, response, issued>>

\* The second UPDATE of the cross-column branch.
UpdateNew(w) ==
    /\ worker[w].pc = "update_new"
    /\ txn.owner = w
    /\ LET r == worker[w] IN
       txn' = [txn EXCEPT !.tasks =
                  TaskViewSet_move_update_new(@, r.instance, r.column_id, new_position(r))]
    /\ worker' = [worker EXCEPT ![w].pc = "save"]
    /\ UNCHANGED <<attached, others, database, nextBoard, nextColumn, nextTask, response, issued>>

\* column.save() / task.save() inside the atomic block.
Save(w) ==
    /\ worker[w].pc = "save"
    /\ txn.owner = w
    /\ LET r == worker[w] IN
       /\ txn' = IF r.op = "move_column"
                 THEN [txn EXCEPT !.columns =
                          ColumnViewSet_move_save(@, r.instance, new_position(r))]
                 ELSE [txn EXCEPT !.tasks =
                          TaskViewSet_move_save(@, r.instance, r.column_id,
                                                new_position(r))]
       /\ worker' = [worker EXCEPT ![w].pc =
                        IF CrossColumn(r) THEN "log" ELSE "commit"]
    /\ UNCHANGED <<attached, others, database, nextBoard, nextColumn, nextTask, response, issued>>

\* ActivityLog.objects.create(...) of TaskViewSet.move: inside the atomic
\* block, in the cross-column branch.
LogInTransaction(w) ==
    /\ worker[w].pc = "log"
    /\ txn.owner = w
    /\ LET r == worker[w] IN
       txn' = [txn EXCEPT !.activity =
                  TaskViewSet_move_log(@, txn.columns, r.instance, r.column_id,
                                       new_position(r))]
    /\ worker' = [worker EXCEPT ![w].pc = "commit"]
    /\ UNCHANGED <<attached, others, database, nextBoard, nextColumn, nextTask, response, issued>>

\* The end of the atomic block: the writes of the transaction are committed.
\* TaskViewSet.move returns from inside the block; ColumnViewSet.move goes on
\* to its ActivityLog.objects.create.
Commit(w) ==
    /\ worker[w].pc = "commit"
    /\ txn.owner = w
    /\ columns' = txn.columns
    /\ tasks' = txn.tasks
    /\ activity' = txn.activity
    /\ txn' = NoTransaction
    /\ worker' = [worker EXCEPT ![w] =
          IF @.op = "move_column"
          THEN [@ EXCEPT !.pc = "log", !.moved = TRUE]
          ELSE [@ EXCEPT !.pc = "done", !.status = HTTP_200_OK, !.moved = TRUE,
                         !.logged = txn.activity # activity]]
    /\ UNCHANGED <<boards, nextBoard, nextColumn, nextTask, response, attached, others, issued>>

\* ActivityLog.objects.create(...) of ColumnViewSet.move: after the atomic
\* block, a statement committed on its own.
LogAfterCommit(w) ==
    /\ worker[w].pc = "log"
    /\ worker[w].op = "move_column"
    /\ txn.owner = 0
    /\ activity' = ColumnViewSet_move_log(activity, worker[w].instance,
                                          new_position(worker[w]))
    /\ worker' = [worker EXCEPT ![w] =
          [@ EXCEPT !.pc = "done", !.status = HTTP_200_OK, !.logged = TRUE]]
    /\ UNCHANGED <<boards, columns, tasks, nextBoard, nextColumn, nextTask, response, txn,
                   attached, others, issued>>

\* A statement raises (a storage error, a timeout, the cancellation of the
\* request): an open atomic block is rolled back, the request ends.
Fail(w) ==
    /\ worker[w].pc \notin {"get_object", "done"}
    /\ txn' = IF txn.owner = w THEN NoTransaction ELSE txn
    /\ worker' = [worker EXCEPT ![w] =
          [@ EXCEPT !.pc = "done", !.status = HTTP_500_INTERNAL_SERVER_ERROR]]
    /\ UNCHANGED <<attached, others, database, nextBoard, nextColumn, nextTask, response, issued>>

\* The move requests a worker may be given on the rows cols, tsks.
MoveRequests(cols, tsks) ==
    {Worker("move_column", c, 0, p, cols[c].board) :
        c \in DOMAIN cols, p \in Positions}
    \cup {Worker("move_task", t, c, p, tsks[t].column) :
              t \in DOMAIN tsks, c \in DOMAIN cols, p \in Positions}

\* A board whose columns, and whose tasks per column, hold dense positions;
\* the log rows of the requests that built it are left out (a move reads none).
InitMoves ==
    /\ boards = {1}
    /\ columns \in {cols \in [1 .. InitColumns ->
                                [board : {1}, position : 0 .. InitColumns - 1]] :
                       Cardinality({cols[c].position : c \in DOMAIN cols}) = InitColumns}
    /\ tasks \in {tsks \in [1 .. InitTasks ->
                              [column : 1 .. InitColumns, position : 0 .. InitTasks - 1]] :
                     \A c \in 1 .. InitColumns :
                        LET S == {t \in DOMAIN tsks : tsks[t].column = c} IN
                        /\ {tsks[t].position : t \in S} = 0 .. Cardinality(S) - 1
                        /\ \A t, u \in S : tsks[t].position = tsks[u].position => t = u}
    /\ activity = <<>>
    /\ nextBoard = 2
    /\ nextColumn = InitColumns + 1
    /\ nextTask = InitTasks + 1
    /\ response = Response("none", 0, 0, 0, 0)
    /\ worker \in [Workers -> MoveRequests(columns, tasks)]
    /\ txn = NoTransaction
    /\ is_archived = {}
    /\ labels = <<>>
    /\ task_labels = EmptyBag
    /\ nextLabel = 1
    /\ comments = <<>>
    /\ nextComment = 1
    /\ members = {}
    /\ issued = [columns |-> columns, tasks |-> tasks]

NextMoves ==
    \E w \in Workers :
        \/ GetObject(w)
        \/ IsValid(w)
        \/ UpdateOld(w)
        \/ UpdateNew(w)
        \/ Save(w)
        \/ LogInTransaction(w)
        \/ Commit(w)
        \/ LogAfterCommit(w)
        \/ Fail(w)

SpecMoves == InitMoves /\ [][NextMoves]_vars

\* --------------------------------------------- moves under row locks
\* The same handlers against a store that locks rows, not the database (the
\* row-level locking of PostgreSQL and of MySQL/InnoDB under their default
\* isolation): every worker has its own open transaction, an UPDATE locks the
\* rows it matches until the commit, a statement that needs a row another
\* transaction holds waits for it, and a read sees committed rows only.  Here
\* txn[w] is the transaction of worker w: the Task rows it holds locked, the
\* rows it wrote and the log rows it inserted.  The handler code takes no lock
\* of its own (no select_for_update): these are the only locks.

NoLocks == [locks |-> {}, tasks |-> <<>>, activity |-> <<>>]

\* The Task rows a statement of worker w sees: the committed rows under the
\* rows its own transaction wrote.
View(w) ==
    [t \in DOMAIN tasks |->
        IF t \in DOMAIN txn[w].tasks THEN txn[w].tasks[t] ELSE tasks[t]]

\* The rows the next statement of worker w writes, as the table after it.
Statement(w) ==
    LET r == worker[w] IN
    CASE r.pc = "update_old" ->
            TaskViewSet_move_update_old(View(w), r.instance, r.column_id, new_position(r))
      [] r.pc = "update_new" ->
            TaskViewSet_move_update_new(View(w), r.instance, r.column_id, new_position(r))
      [] r.pc = "save" ->
            TaskViewSet_move_save(View(w), r.instance, r.column_id, new_position(r))
      [] OTHER -> View(w)

\* The rows the next statement of worker w locks: the rows its UPDATE matches,
\* and the row of the task for task.save().
Needs(w) ==
    {t \in DOMAIN tasks : Statement(w)[t] # View(w)[t]}
        \cup (IF worker[w].pc = "save" THEN {worker[w].pk} ELSE {})

\* Worker w waits for a row the transaction of worker v holds.
WaitsFor(w, v) == w # v /\ Needs(w) \cap txn[v].locks # {}

\* A writing statement of the atomic block of TaskViewSet.move: it runs when
\* no other transaction holds a row it needs, locks the rows and writes them.
LockAndWrite(w, pc, next) ==
    /\ worker[w].pc = pc
    /\ \A v \in Workers : ~WaitsFor(w, v)
    /\ LET held == txn[w].locks \cup Needs(w) IN
       txn' = [txn EXCEPT ![w] =
                  [@ EXCEPT !.locks = held,
                            !.tasks = [t \in held |-> Statement(w)[t]]]]
    /\ worker' = [worker EXCEPT ![w].pc = next]
    /\ UNCHANGED <<attached, others, database, nextBoard, nextColumn, nextTask, response,
                   issued>>

\* The UPDATE of the source column, the UPDATE of the target column and
\* task.save(), in program order.
LockUpdateOld(w) ==
    LockAndWrite(w, "update_old", IF CrossColumn(worker[w]) THEN "update_new" ELSE "save")

LockUpdateNew(w) == LockAndWrite(w, "update_new", "save")

LockSave(w) ==
    LockAndWrite(w, "save", IF CrossColumn(worker[w]) THEN "log" ELSE "commit")

\* ActivityLog.objects.create(...) inside the atomic block: an INSERT, which
\* waits for no row.
LockLog(w) ==
    /\ worker[w].pc = "log"
    /\ LET r == worker[w] IN
       txn' = [txn EXCEPT ![w].activity =
                  TaskViewSet_move_log(@, columns, r.instance, r.column_id,
                                       new_position(r))]
    /\ worker' = [worker EXCEPT ![w].pc = "commit"]
    /\ UNCHANGED <<attached, others, database, nextBoard, nextColumn, nextTask, response,
                   issued>>

\* The end of the atomic block: the rows of the transaction are committed and
\* its locks released.
LockCommit(w) ==
    /\ worker[w].pc = "commit"
    /\ tasks' = View(w)
    /\ activity' = activity \o txn[w].activity
    /\ txn' = [txn EXCEPT ![w] = NoLocks]
    /\ worker' = [worker EXCEPT ![w] =
          [@ EXCEPT !.pc = "done", !.status = HTTP_200_OK, !.moved = TRUE,
                    !.logged = txn[w].activity # <<>>]]
    /\ UNCHANGED <<boards, columns, nextBoard, nextColumn, nextTask, response, attached,
                   others, issued>>

\* Two transactions wait for each other.  The store ends one of them with a
\* deadlock error, which the handler does not catch: its atomic block is
\* rolled back and the request answered with a server error.
Deadlock(v, w) == WaitsFor(v, w) /\ WaitsFor(w, v)

DeadlockDetected(w) ==
    /\ \E v \in Workers : Deadlock(v, w)
    /\ txn' = [txn EXCEPT ![w] = NoLocks]
    /\ worker' = [worker EXCEPT ![w] =
          [@ EXCEPT !.pc = "done", !.status = HTTP_500_INTERNAL_SERVER_ERROR]]
    /\ UNCHANGED <<attached, others, database, nextBoard, nextColumn, nextTask, response,
                   issued>>

\* The cross-column move requests on the rows tsks: a task, the other column
\* as the target and a position.
LockPositions == 0 .. MaxLockPosition

CrossColumnRequests(cols, tsks) ==
    UNION {{Worker("move_task", t, c, p, tsks[t].column) :
               c \in DOMAIN cols \ {tsks[t].column}, p \in LockPositions} :
           t \in DOMAIN tsks}

\* A board of LockColumns columns and LockTasks tasks with dense positions and
\* one move_task request per worker.
InitLocks ==
    /\ boards = {1}
    /\ columns = [c \in 1 .. LockColumns |-> [board |-> 1, position |-> c - 1]]
    /\ tasks \in DenseTasks(LockColumns, LockTasks)
    /\ activity = <<>>
    /\ nextBoard = 2
    /\ nextColumn = LockColumns + 1
    /\ nextTask = LockTasks + 1
    /\ response = Response("none", 0, 0, 0, 0)
    /\ worker \in [Workers -> CrossColumnRequests(columns, tasks)]
    /\ txn = [w \in Workers |-> NoLocks]
    /\ is_archived = {}
    /\ labels = <<>>
    /\ task_labels = EmptyBag
    /\ nextLabel = 1
    /\ comments = <<>>
    /\ nextComment = 1
    /\ members = {}
    /\ issued = [columns |-> columns, tasks |-> tasks]

NextLocks ==
    \E w \in Workers :
        \/ GetObject(w)
        \/ IsValid(w)
        \/ LockUpdateOld(w)
        \/ LockUpdateNew(w)
        \/ LockSave(w)
        \/ LockLog(w)
        \/ LockCommit(w)
        \/ DeadlockDetected(w)

SpecLocks == InitLocks /\ [][NextLocks]_vars

\* ------------------------------------------------- concurrent creations
\* Two request workers serve one create request each.  Column.save() and
\* Task.save() of a new row are two statements, the aggregate that reads the
\* largest position and the INSERT, and perform_create adds the log row;
\* no atomic block encloses them, so each statement is committed on its own.

\* A create request: the container is the board of a new column, the column
\* of a new task.
CreateRequest(op, container) ==
    [Worker(op, 0, 0, 0, container) EXCEPT !.pc = "aggregate"]

\* max_position = ...aggregate(Max('position'))['position__max']
\* self.position = (max_position or -1) + 1
Aggregate(w) ==
    /\ worker[w].pc = "aggregate"
    /\ LET r == worker[w] IN
       worker' = [worker EXCEPT ![w] =
          [r EXCEPT !.pc = "insert",
                    !.position = IF r.op = "create_column"
                                 THEN Column_save(columns, r.container)
                                 ELSE Task_save(tasks, r.container)]]
    /\ UNCHANGED <<attached, others, database, nextBoard, nextColumn, nextTask, response,
                   txn, issued>>

\* super().save(*args, **kwargs): the INSERT of the row with the position
\* computed before.
Insert(w) ==
    /\ worker[w].pc = "insert"
    /\ LET r == worker[w] IN
       IF r.op = "create_column"
       THEN /\ columns' = Model_save(columns, nextColumn,
                              [board |-> r.container, position |-> r.position])
            /\ nextColumn' = nextColumn + 1
            /\ worker' = [worker EXCEPT ![w] = [r EXCEPT !.pc = "log", !.pk = nextColumn]]
            /\ UNCHANGED <<tasks, nextTask>>
       ELSE /\ tasks' = Model_save(tasks, nextTask,
                            [column |-> r.container, position |-> r.position])
            /\ nextTask' = nextTask + 1
            /\ worker' = [worker EXCEPT ![w] = [r EXCEPT !.pc = "log", !.pk = nextTask]]
            /\ UNCHANGED <<columns, nextColumn>>
    /\ UNCHANGED <<attached, others, boards, activity, nextBoard, response, txn, issued>>

\* ActivityLog.objects.create(...) of perform_create
LogCreated(w) ==
    /\ worker[w].pc = "log"
    /\ worker[w].op \in {"create_column", "create_task"}
    /\ LET r == worker[w] IN
       activity' =
          IF r.op = "create_column"
          THEN ActivityLog_create(activity, r.container, "create_column",
                                  [column |-> r.pk, position |-> r.position])
          ELSE ActivityLog_create(activity, columns[r.container].board, "create_task",
                                  [task_id |-> r.pk, column |-> r.container])
    /\ worker' = [worker EXCEPT ![w] =
          [@ EXCEPT !.pc = "done", !.status = HTTP_201_CREATED, !.logged = TRUE]]
    /\ UNCHANGED <<attached, others, boards, columns, tasks, nextBoard, nextColumn, nextTask,
                   response, txn, issued>>

\* The create requests a worker may be given on the rows bds, cols.
CreateRequests(bds, cols) ==
    {CreateRequest("create_column", b) : b \in bds}
    \cup {CreateRequest("create_task", c) : c \in DOMAIN cols}

\* A board of InitColumns columns and InitTasks tasks with dense positions and
\* one create request per worker.
InitCreates ==
    /\ boards = {1}
    /\ columns \in DenseColumns(InitColumns)
    /\ tasks \in DenseTasks(InitColumns, InitTasks)
    /\ activity = <<>>
    /\ nextBoard = 2
    /\ nextColumn = InitColumns + 1
    /\ nextTask = InitTasks + 1
    /\ response = Response("none", 0, 0, 0, 0)
    /\ worker \in [Workers -> CreateRequests(boards, columns)]
    /\ txn = NoTransaction
    /\ is_archived = {}
    /\ labels = <<>>
    /\ task_labels = EmptyBag
    /\ nextLabel = 1
    /\ comments = <<>>
    /\ nextComment = 1
    /\ members = {}
    /\ issued = [columns |-> columns, tasks |-> tasks]

NextCreates ==
    \E w \in Workers :
        \/ Aggregate(w)
        \/ Insert(w)
        \/ LogCreated(w)

SpecCreates == InitCreates /\ [][NextCreates]_vars

\* ------------------------------------------------ a move beside deletes
\* One worker serves a move request statement by statement while delete
\* requests are served.  A delete is one statement of its own after the log
\* row; it waits while the move's transaction is open (one writer at a time)
\* and can run between get_object() and the atomic block, which loads nothing
\* again.  task.save() and column.save() then find no row to UPDATE and
\* INSERT the instance (Model_save).

\* The foreign keys of the row the save of worker w writes refer to rows the
\* transaction sees: Column.board, Task.column.
ForeignKeys(w) ==
    /\ worker[w].pc = "save"
    /\ txn.owner = w
    /\ IF worker[w].op = "move_column"
       THEN worker[w].instance.board \in boards
       ELSE worker[w].column_id \in DOMAIN txn.columns

\* The save of the atomic block ends with an IntegrityError when the target
\* column of the task is gone: the block is rolled back.
IntegrityError(w) ==
    /\ worker[w].pc = "save"
    /\ txn.owner = w
    /\ ~ForeignKeys(w)
    /\ Fail(w)

\* One move request on a populated board, no other worker.
InitRace ==
    /\ boards = {1}
    /\ columns \in DenseColumns(InitColumns)
    /\ tasks \in DenseTasks(InitColumns, InitTasks)
    /\ activity = <<>>
    /\ nextBoard = 2
    /\ nextColumn = InitColumns + 1
    /\ nextTask = InitTasks + 1
    /\ response = Response("none", 0, 0, 0, 0)
    /\ worker \in {ws \in [Workers -> MoveRequests(columns, tasks)
                                         \cup {Worker("none", 0, 0, 0, 0)}] :
                      \A w \in Workers : (ws[w].op # "none") <=> (w = 1)}
    /\ txn = NoTransaction
    /\ is_archived = {}
    /\ labels = <<>>
    /\ task_labels = EmptyBag
    /\ nextLabel = 1
    /\ comments = <<>>
    /\ nextComment = 1
    /\ members = {}
    /\ issued = [columns |-> columns, tasks |-> tasks]

NextRace ==
    \/ \E w \in Workers :
          \/ GetObject(w)
          \/ IsValid(w)
          \/ UpdateOld(w)
          \/ UpdateNew(w)
          \/ ForeignKeys(w) /\ Save(w)
          \/ IntegrityError(w)
          \/ LogInTransaction(w)
          \/ Commit(w)
          \/ LogAfterCommit(w)
    \/ \E c \in 1 .. InitColumns :
          txn.owner = 0 /\ response.op = "none" /\ ColumnViewSet_perform_destroy(c)
    \/ \E t \in 1 .. InitTasks :
          txn.owner = 0 /\ response.op = "none" /\ TaskViewSet_perform_destroy(t)

SpecRace == InitRace /\ [][NextRace]_vars

\* ------------------------------------------------------------- properties
\* The density of a container: n siblings occupy exactly the positions 0..n-1.
Dense(positions, n) ==
    /\ positions = 0 .. (n - 1)
    /\ Cardinality(positions) = n

ColumnPositions(cols, b) == {cols[c].position : c \in ColumnsOf(cols, b)}
TaskPositions(tsks, c) == {tsks[t].position : t \in TasksOf(tsks, c)}

\* C1: after every create-column, move-column and delete-column operation the
\* positions of the columns of each board are exactly 0..n-1, without gaps or
\* duplicates, n being the number of columns of the board.
C1_ColumnPositionsDense ==
    \A b \in boards :
        Dense(ColumnPositions(columns, b), Cardinality(ColumnsOf(columns, b)))

\* C2: after every create-task, move-task and delete-task operation the
\* positions of the tasks of each column are exactly 0..m-1, without gaps or
\* duplicates, m being the number of tasks of the column.
C2_TaskPositionsDense ==
    \A c \in DOMAIN columns :
        Dense(TaskPositions(tasks, c), Cardinality(TasksOf(tasks, c)))

\* The request served by the step is a move of an existing item.
IsColumnMove == response'.op = "move_column" /\ response'.pk \in DOMAIN columns
IsTaskMove == response'.op = "move_task" /\ response'.pk \in DOMAIN tasks

\* C5: a move_column or move_task whose target position is negative or beyond
\* the allowed bound (>= sibling count within one container, > destination
\* task count across columns) answers with a validation error and leaves every
\* column position, task position and task column unchanged.
C5_InvalidPositionRejected ==
    [][ /\ ( /\ IsColumnMove
             /\ \/ response'.position < 0
                \/ response'.position >=
                     Cardinality(ColumnsOf(columns, columns[response'.pk].board)) )
            => ( /\ response'.status = HTTP_400_BAD_REQUEST
                 /\ UNCHANGED <<columns, tasks>> )
        /\ ( /\ IsTaskMove
             /\ response'.column_id \in DOMAIN columns
             /\ \/ response'.position < 0
                \/ /\ response'.column_id = tasks[response'.pk].column
                   /\ response'.position >=
                        Cardinality(TasksOf(tasks, response'.column_id))
                \/ /\ response'.column_id # tasks[response'.pk].column
                   /\ response'.position >
                        Cardinality(TasksOf(tasks, response'.column_id)) )
            => ( /\ response'.status = HTTP_400_BAD_REQUEST
                 /\ UNCHANGED <<columns, tasks>> )
      ]_vars

\* C6: a move_task that names a target column which does not exist answers
\* with a not-found error and changes no task position, no task's column and
\* no activity-log row.
C6_UnknownColumnNotFound ==
    [][ (IsTaskMove /\ response'.column_id \notin DOMAIN columns)
            => ( /\ response'.status = HTTP_404_NOT_FOUND
                 /\ UNCHANGED <<columns, tasks, activity>> )
      ]_vars

\* The mutation-free half of C6: the request for an unknown column is rejected
\* and writes nothing.
C6_UnknownColumnNoMutation ==
    [][ (IsTaskMove /\ response'.column_id \notin DOMAIN columns)
            => ( /\ response'.status # HTTP_200_OK
                 /\ UNCHANGED <<columns, tasks, activity>> )
      ]_vars

\* C7: a cross-column move_task of a task at position o of column A to column
\* B with target n, 0 <= n <= task count of B, leaves the task in B at position
\* n, every other task of A that was above o one lower, every task of B that
\* was at n or above one higher, and all other tasks as they were.
C7_CrossColumnMove ==
    [][ ( /\ IsTaskMove
          /\ response'.column_id \in DOMAIN columns
          /\ response'.column_id # tasks[response'.pk].column
          /\ response'.position >= 0
          /\ response'.position <= Cardinality(TasksOf(tasks, response'.column_id)) )
        => LET pk == response'.pk
               A == tasks[pk].column
               B == response'.column_id
               o == tasks[pk].position
               n == response'.position
           IN /\ DOMAIN tasks' = DOMAIN tasks
              /\ tasks'[pk] = [column |-> B, position |-> n]
              /\ \A t \in DOMAIN tasks \ {pk} :
                    /\ tasks'[t].column = tasks[t].column
                    /\ tasks'[t].position =
                         IF tasks[t].column = A /\ tasks[t].position > o
                         THEN tasks[t].position - 1
                         ELSE IF tasks[t].column = B /\ tasks[t].position >= n
                         THEN tasks[t].position + 1
                         ELSE tasks[t].position
      ]_vars

\* C8: every successful move_column and move_task (within a column or across
\* columns) appends exactly one activity-log row of the item's board that
\* describes the move; a failed move appends none.
C8_MoveLoggedOnce ==
    [][ /\ IsColumnMove =>
             IF response'.status = HTTP_200_OK
             THEN /\ Len(activity') = Len(activity) + 1
                  /\ SubSeq(activity', 1, Len(activity)) = activity
                  /\ activity'[Len(activity')].action = "move_column"
                  /\ activity'[Len(activity')].board = columns[response'.pk].board
                  /\ activity'[Len(activity')].details.column = response'.pk
             ELSE activity' = activity
        /\ IsTaskMove =>
             IF response'.status = HTTP_200_OK
             THEN /\ Len(activity') = Len(activity) + 1
                  /\ SubSeq(activity', 1, Len(activity)) = activity
                  /\ activity'[Len(activity')].action = "move_task"
                  /\ activity'[Len(activity')].board =
                        columns[tasks[response'.pk].column].board
                  /\ activity'[Len(activity')].details.task_id = response'.pk
             ELSE activity' = activity
        /\ (response'.op \in {"move_column", "move_task"} /\ ~IsColumnMove /\ ~IsTaskMove)
             => activity' = activity
      ]_vars

\* The position the allocator is specified to return for a container whose
\* siblings hold the given positions.
AppendPosition(positions) == IF positions = {} THEN 0 ELSE Max(positions) + 1

\* C9: a created column (task) gets the position max(sibling positions) + 1,
\* or 0 in a container without siblings.
C9_AppendPosition ==
    [][ /\ response'.op = "create_column" =>
             columns'[response'.pk].position =
                 AppendPosition(ColumnPositions(columns, columns'[response'.pk].board))
        /\ response'.op = "create_task" =>
             tasks'[response'.pk].position =
                 AppendPosition(TaskPositions(tasks, tasks'[response'.pk].column))
      ]_vars

\* The activity rows of board b, oldest first.
BoardLog(b) == SelectSeq(activity, LAMBDA e : e.board = b)

\* C10: on a board without columns, create column A, create column B leaves A
\* at position 0 and B at position 1, and a following move_column(B, 0) leaves
\* A at position 1 and B at position 0.  The board's log is its history.
C10_RoundTrip ==
    \A b \in boards :
        LET L == BoardLog(b) IN
        /\ ( /\ Len(L) = 3
             /\ L[2].action = "create_column"
             /\ L[3].action = "create_column" )
            => ( /\ columns[L[2].details.column].position = 0
                 /\ columns[L[3].details.column].position = 1 )
        /\ ( /\ Len(L) = 4
             /\ L[2].action = "create_column"
             /\ L[3].action = "create_column"
             /\ L[4].action = "move_column"
             /\ L[4].details.column = L[3].details.column
             /\ L[4].details.to_position = 0 )
            => ( /\ columns[L[2].details.column].position = 1
                 /\ columns[L[3].details.column].position = 0 )

\* Every worker has served its request without a failure.
AllServed == \A w \in Workers : worker[w].pc = "done" /\ worker[w].status = HTTP_200_OK

\* The workers served move_task requests for tasks of one column.
TaskMovesOfOneColumn ==
    /\ \A w \in Workers : worker[w].op = "move_task"
    /\ \A v, w \in Workers : worker[v].container = worker[w].container

\* C3: two move_task requests for tasks of one column, served concurrently from
\* a state with dense task positions, end in every interleaving of their steps
\* with the task positions of every column dense again.
C3_ConcurrentMovesDense ==
    (AllServed /\ TaskMovesOfOneColumn)
        => \A c \in DOMAIN columns :
              Dense(TaskPositions(tasks, c), Cardinality(TasksOf(tasks, c)))

\* C3 restricted to requests for two distinct tasks that stay within their
\* column and whose new_position is an index of the column: each of them,
\* served alone, keeps the column dense.
C3_ConcurrentInRangeMovesDense ==
    ( /\ AllServed
      /\ TaskMovesOfOneColumn
      /\ \A w \in Workers :
            /\ worker[w].column_id = worker[w].container
            /\ new_position(worker[w]) < Cardinality(TasksOf(tasks, worker[w].container))
      /\ \A v, w \in Workers : worker[v].pk = worker[w].pk => v = w )
        => \A c \in DOMAIN columns :
              Dense(TaskPositions(tasks, c), Cardinality(TasksOf(tasks, c)))

\* C4: the sibling updates, the moved item's new position and the log row of a
\* move are committed together or not at all, in every state, also after a
\* failure at any statement: no worker has its row writes committed without
\* its log row, or the log row without the row writes.
C4_MoveAtomicWithLog ==
    \A w \in Workers : worker[w].moved = worker[w].logged

\* C11: a move of an item to the position it already has (move_column with the
\* column's position; move_task with the task's own column and position)
\* succeeds and changes no position, neither the item's nor a sibling's.
C11_NoOpMove ==
    [][ /\ (IsColumnMove /\ response'.position = columns[response'.pk].position)
            => (response'.status = HTTP_200_OK /\ columns' = columns)
        /\ ( /\ IsTaskMove
             /\ response'.column_id = tasks[response'.pk].column
             /\ response'.position = tasks[response'.pk].position )
            => (response'.status = HTTP_200_OK /\ tasks' = tasks)
      ]_vars

\* The column half of C11.
C11_NoOpColumnMove ==
    [][ (IsColumnMove /\ response'.position = columns[response'.pk].position)
            => (response'.status = HTTP_200_OK /\ columns' = columns)
      ]_vars

\* C12: an update of a column or of a task (a change of the task's column
\* included) changes no position: every column and every task has after the
\* update the position it had before.
C12_UpdateKeepsPositions ==
    [][ response'.op \in {"update_column", "update_task"}
            => /\ \A c \in DOMAIN columns :
                     c \in DOMAIN columns' /\ columns'[c].position = columns[c].position
               /\ \A t \in DOMAIN tasks :
                     t \in DOMAIN tasks' /\ tasks'[t].position = tasks[t].position
      ]_vars

\* C13: the deletion of a column (of a task) removes that row and leaves every
\* other column (task) as it was, position included: nothing is compacted.
C13_DeleteLeavesGap ==
    [][ /\ response'.op = "delete_column"
            => /\ response'.pk \notin DOMAIN columns'
               /\ \A c \in DOMAIN columns \ {response'.pk} :
                     c \in DOMAIN columns' /\ columns'[c] = columns[c]
        /\ response'.op = "delete_task"
            => /\ response'.pk \notin DOMAIN tasks'
               /\ \A t \in DOMAIN tasks \ {response'.pk} :
                     t \in DOMAIN tasks' /\ tasks'[t] = tasks[t]
      ]_vars

\* A column was deleted from below another one of its board: the board is
\* left with columns and none of them at position 0.
C13_GapLeft ==
    /\ response.op = "delete_column"
    /\ response.status = HTTP_204_NO_CONTENT
    /\ LET b == activity[Len(activity)].board IN
       /\ activity[Len(activity)].action = "delete_column"
       /\ ColumnsOf(columns, b) # {}
       /\ 0 \notin ColumnPositions(columns, b)

\* The requests other than moves that C14 names, and the tables they write.
LoggedOps ==
    {"create_board", "update_board", "create_column", "update_column", "delete_column",
     "create_task", "update_task", "delete_task", "archive_task", "restore_task",
     "add_comment", "add_member", "remove_member"}

Tables == <<boards, columns, tasks, is_archived, comments, members>>

\* C14: every request other than a move that succeeds and changes a row
\* appends one row to the activity log, of a board that exists.  (The rows of
\* a deleted board go with the board, so delete_board is left out.)
C14_MutationLogged ==
    [][ ( /\ response'.op \in LoggedOps
          /\ response'.status \in {HTTP_200_OK, HTTP_201_CREATED, HTTP_204_NO_CONTENT}
          /\ Tables' # Tables )
            => /\ Len(activity') = Len(activity) + 1
               /\ SubSeq(activity', 1, Len(activity)) = activity
               /\ activity'[Len(activity')].board \in boards'
      ]_vars

\* C14 for restore alone: a restore of an archived task appends a log row.
C14_RestoreLogged ==
    [][ ( /\ response'.op = "restore_task"
          /\ response'.status = HTTP_200_OK
          /\ is_archived' # is_archived )
            => Len(activity') = Len(activity) + 1
      ]_vars

\* C14 without update and restore: the create, delete, archive, comment and
\* member requests that succeed append one row each.
C14_OthersLogged ==
    [][ ( /\ response'.op \in LoggedOps \ {"update_board", "update_column",
                                           "update_task", "restore_task"}
          /\ response'.status \in {HTTP_200_OK, HTTP_201_CREATED, HTTP_204_NO_CONTENT} )
            => /\ Len(activity') = Len(activity) + 1
               /\ SubSeq(activity', 1, Len(activity)) = activity
               /\ activity'[Len(activity')].action = response'.op
               /\ activity'[Len(activity')].board \in boards'
      ]_vars

\* The rows of board b in the log, oldest first.
LogOf(log, b) == SelectSeq(log, LAMBDA e : e.board = b)

\* C15: a step leaves the log rows of every board that exists before and
\* after it in place and unchanged, with any new rows behind them, and leaves
\* no row of a board that does not exist: the log of a board only grows, and
\* its rows go only with the board.
C15_LogAppendOnly ==
    [][ /\ \A b \in boards \cap boards' :
              LET old == LogOf(activity, b)
                  new == LogOf(activity', b)
              IN /\ Len(new) >= Len(old)
                 /\ SubSeq(new, 1, Len(old)) = old
        /\ \A i \in 1 .. Len(activity') : activity'[i].board \in boards'
      ]_vars

\* A board was deleted while another board, with rows in the log, lives on.
C15_BoardDeletedBesideLog ==
    /\ response.op = "delete_board"
    /\ response.status = HTTP_204_NO_CONTENT
    /\ response.pk \notin boards
    /\ \E b \in boards : Len(LogOf(activity, b)) >= 2

\* C16: every TaskLabel row links a task and a label of one board.
C16_LabelsOfSameBoard ==
    \A p \in BagToSet(task_labels) :
        labels[p[2]].board = columns[tasks[p[1]].column].board

\* C16 for the requests that name no label: the moves and column changes of
\* a task whose labels were attached within its board.
C16_MovesKeepLabelsOnBoard ==
    [][ ( /\ response'.op \in {"move_task", "update_task"}
          /\ task_labels' = task_labels
          /\ C16_LabelsOfSameBoard )
            => C16_LabelsOfSameBoard'
      ]_vars

\* The list names one label of the table twice.
HasDuplicate(label_ids) ==
    \E i, j \in DOMAIN label_ids :
        i # j /\ label_ids[i] = label_ids[j] /\ label_ids[i] \in DOMAIN labels

\* C17: a create or update request whose label_ids names a label twice is
\* answered with an error and writes nothing (no task row, no change of the
\* task's fields or labels, no log row), and no TaskLabel pair ever occurs
\* twice.
C17_DuplicateLabelRejected ==
    [][ /\ \A c \in EditColumns, l \in LabelIds :
              (HasDuplicate(l) /\ TaskViewSet_perform_create(c, l))
                  => /\ response'.status >= HTTP_400_BAD_REQUEST
                     /\ UNCHANGED <<tasks, is_archived, task_labels, activity>>
        /\ \A t \in DOMAIN tasks, c \in EditColumns, l \in LabelIds :
              (HasDuplicate(l) /\ TaskViewSet_perform_update(t, TaskPatch(t, c, Some(l))))
                  => /\ response'.status >= HTTP_400_BAD_REQUEST
                     /\ UNCHANGED <<tasks, is_archived, task_labels, activity>>
        /\ \A p \in DOMAIN task_labels' : task_labels'[p] = 1
      ]_vars

\* The parts of C17 that hold: the request is answered with an error, and no
\* TaskLabel pair occurs twice.
C17_DuplicateLabelError ==
    [][ /\ \A c \in EditColumns, l \in LabelIds :
              (HasDuplicate(l) /\ TaskViewSet_perform_create(c, l))
                  => response'.status >= HTTP_400_BAD_REQUEST
        /\ \A t \in DOMAIN tasks, c \in EditColumns, l \in LabelIds :
              (HasDuplicate(l) /\ TaskViewSet_perform_update(t, TaskPatch(t, c, Some(l))))
                  => response'.status >= HTTP_400_BAD_REQUEST
      ]_vars

C17_NoDuplicateTaskLabel == \A p \in DOMAIN task_labels : task_labels[p] = 1

C19_TaskMoveWithinColumn ==
    [][ ( /\ IsTaskMove
          /\ response'.column_id = tasks[response'.pk].column
          /\ response'.position >= 0
          /\ response'.position < Cardinality(TasksOf(tasks, response'.column_id))
          /\ response'.position # tasks[response'.pk].position )
        => LET pk == response'.pk
               col == tasks[pk].column
               o == tasks[pk].position
               n == response'.position
           IN /\ response'.status = HTTP_200_OK
              /\ DOMAIN tasks' = DOMAIN tasks
              /\ tasks'[pk] = [column |-> col, position |-> n]
              /\ \A t \in DOMAIN tasks \ {pk} :
                    /\ tasks'[t].column = tasks[t].column
                    /\ tasks'[t].position =
                         IF tasks[t].column = col /\ n < o
                            /\ n <= tasks[t].position /\ tasks[t].position < o
                         THEN tasks[t].position + 1
                         ELSE IF tasks[t].column = col /\ n > o
                            /\ o < tasks[t].position /\ tasks[t].position <= n
                         THEN tasks[t].position - 1
                         ELSE tasks[t].position
      ]_vars

\* C20: a successful move_task into another column with the submitted
\* position p shifts the tasks of that column at position >= p + 1 up by one,
\* leaves its other tasks where they were and stores the task there at
\* p + 1; a successful move_column with the submitted position p stores the
\* column at p.
C20_CrossColumnTargetPlusOne ==
    [][ /\ ( /\ IsTaskMove
             /\ response'.status = HTTP_200_OK
             /\ response'.column_id # tasks[response'.pk].column )
            => LET pk == response'.pk
                   B == response'.column_id
                   p == response'.position
               IN /\ tasks'[pk] = [column |-> B, position |-> p + 1]
                  /\ \A t \in TasksOf(tasks, B) :
                        tasks'[t] = [column |-> B,
                                     position |-> IF tasks[t].position >= p + 1
                                                  THEN tasks[t].position + 1
                                                  ELSE tasks[t].position]
        /\ (IsColumnMove /\ response'.status = HTTP_200_OK)
            => columns'[response'.pk].position = response'.position
      ]_vars

\* A task was moved from the dense board into a column of two tasks with the
\* submitted position 0: it is at position 1, the task that was at 1 is at 2
\* and the task at 0 stayed.
C20_MovedBehindFirst ==
    /\ response.op = "move_task"
    /\ response.status = HTTP_200_OK
    /\ response.position = 0
    /\ Len(activity) = 1
    /\ activity[1].action = "move_task"
    /\ activity[1].details.from_column # activity[1].details.to_column
    /\ activity[1].details.to_position = 1
    /\ tasks[response.pk] = [column |-> response.column_id, position |-> 1]
    /\ TaskPositions(tasks, response.column_id) = {0, 1, 2}

\* The log row a request appended last.
LastLogged == activity'[Len(activity')]

\* C21: the log row appended by a successful move_column or move_task records
\* as from_position the position the item had before the move and as
\* to_position the position it has after the move.
C21_MoveLogPositions ==
    [][ /\ (IsColumnMove /\ response'.status = HTTP_200_OK /\ activity' # activity)
             => /\ LastLogged.details.from_position = columns[response'.pk].position
                /\ LastLogged.details.to_position = columns'[response'.pk].position
        /\ (IsTaskMove /\ response'.status = HTTP_200_OK /\ activity' # activity)
             => /\ LastLogged.details.from_position = tasks[response'.pk].position
                /\ LastLogged.details.to_position = tasks'[response'.pk].position
      ]_vars

\* C21, the half of move_task: the row of a logged task move holds the
\* position before and the position after the move.
C21_TaskMoveLogPositions ==
    [][ (IsTaskMove /\ response'.status = HTTP_200_OK /\ activity' # activity)
           => /\ LastLogged.details.from_position = tasks[response'.pk].position
              /\ LastLogged.details.to_position = tasks'[response'.pk].position
      ]_vars

\* The rows a move request r leaves when its handler runs alone on the rows
\* db = [columns, tasks]: the instance is loaded from db and the atomic block
\* is applied to it.
MoveAlone(db, r) ==
    IF r.op = "move_column"
    THEN IF r.pk \in DOMAIN db.columns /\ ColumnMoveSerializer_is_valid(r.position)
         THEN [db EXCEPT !.columns =
                  ColumnViewSet_move_rows(db.columns,
                      [pk |-> r.pk, board |-> db.columns[r.pk].board,
                       position |-> db.columns[r.pk].position],
                      new_position(r))]
         ELSE db
    ELSE IF /\ r.pk \in DOMAIN db.tasks
            /\ TaskMoveSerializer_is_valid(db.columns, r.column_id, r.position)
         THEN [db EXCEPT !.tasks =
                  TaskViewSet_move_rows(db.tasks,
                      [pk |-> r.pk, column |-> db.tasks[r.pk].column,
                       position |-> db.tasks[r.pk].position],
                      r.column_id, new_position(r))]
         ELSE db

\* The orders in which the workers' requests can run one after the other.
SerialOrders ==
    {o \in [1 .. MaxWorkers -> Workers] : \A i, j \in 1 .. MaxWorkers : o[i] = o[j] => i = j}

\* The rows left by the first n requests of the order o, run one after the
\* other on the rows db.
RECURSIVE Serially(_, _, _)
Serially(db, o, n) ==
    IF n = 0 THEN db ELSE MoveAlone(Serially(db, o, n - 1), worker[o[n]])

\* The workers move siblings of one container: all move columns of one board,
\* or all move tasks that were in one column when the requests were issued.
SiblingMoves ==
    \A v, w \in Workers :
        /\ worker[v].op = worker[w].op
        /\ worker[v].container = worker[w].container

\* C22: when concurrent moves of siblings of one container have all been
\* served, the Column and Task rows are those left by running the moves one
\* after the other, in one of the serial orders, on the rows the requests
\* were issued against.
C22_MovesSerialized ==
    (AllServed /\ SiblingMoves)
        => \E o \in SerialOrders :
              [columns |-> columns, tasks |-> tasks] = Serially(issued, o, MaxWorkers)

\* C22, second half: the atomic block of a move starts from the position its
\* item holds in the committed rows, not from one read before another move's
\* writes.
C22_ActsOnCurrentPosition ==
    [][ \A w \in Workers :
           UpdateOld(w) =>
              worker[w].instance.position =
                 IF worker[w].op = "move_column"
                 THEN columns[worker[w].pk].position
                 ELSE tasks[worker[w].pk].position
      ]_vars

\* Two workers serve cross-column moves into each other's columns: one moves
\* a task from column A to column B, the other a task from B to A.
MutualMoves(v, w) ==
    /\ v # w
    /\ worker[v].op = "move_task" /\ worker[w].op = "move_task"
    /\ worker[v].container # worker[w].container
    /\ worker[v].column_id = worker[w].container
    /\ worker[w].column_id = worker[v].container

\* C23: two concurrent cross-column moves into each other's columns never
\* deadlock: at no time does each of the two wait for a row the other holds.
C23_NoDeadlock ==
    \A v, w \in Workers : MutualMoves(v, w) => ~Deadlock(v, w)

\* C23, the outcome: no request of two mutual cross-column moves is ended by
\* the store's deadlock error.
C23_BothComplete ==
    \A v, w \in Workers :
        (MutualMoves(v, w) /\ worker[v].pc = "done" /\ worker[w].pc = "done")
            => /\ worker[v].status = HTTP_200_OK
               /\ worker[w].status = HTTP_200_OK

\* C24: a reader of committed rows never sees a cross-column move_task half
\* done.  Every step that changes the committed Task rows is the commit of one
\* move, and for a cross-column move of task k from position o of column A to
\* position n of column B that one step shows the gap closed in A, the gap
\* opened in B and k re-parented.
C24_CrossColumnMoveVisibleAtOnce ==
    [][ tasks' # tasks =>
          \E w \in Workers :
             /\ worker[w].op = "move_task"
             /\ worker[w].pc = "commit" /\ worker'[w].pc = "done"
             /\ CrossColumn(worker[w]) =>
                  LET k == worker[w].pk
                      A == worker[w].instance.column
                      o == worker[w].instance.position
                      B == worker[w].column_id
                      n == new_position(worker[w])
                  IN /\ tasks'[k] = [column |-> B, position |-> n]
                     /\ \A t \in DOMAIN tasks \ {k} :
                           tasks'[t] =
                              IF tasks[t].column = A /\ tasks[t].position > o
                              THEN [tasks[t] EXCEPT !.position = @ - 1]
                              ELSE IF tasks[t].column = B /\ tasks[t].position >= n
                              THEN [tasks[t] EXCEPT !.position = @ + 1]
                              ELSE tasks[t]
      ]_vars

\* A cross-column move has been committed after the other worker's move, and
\* it shifted a sibling in its source column and a sibling in its target
\* column.
C24_BothShiftsCommitted ==
    \E v, w \in Workers :
       /\ v # w
       /\ AllServed
       /\ CrossColumn(worker[w])
       /\ LET before == MoveAlone(issued, worker[v])
              k == worker[w].pk
          IN /\ worker[w].instance.column = before.tasks[k].column
             /\ worker[w].instance.position = before.tasks[k].position
             /\ tasks = MoveAlone(before, worker[w]).tasks
             /\ \E x \in DOMAIN tasks \ {k} :
                   /\ before.tasks[x].column = worker[w].instance.column
                   /\ tasks[x].position = before.tasks[x].position - 1
             /\ \E y \in DOMAIN tasks \ {k} :
                   /\ before.tasks[y].column = worker[w].column_id
                   /\ tasks[y].position = before.tasks[y].position + 1

\* C24 under row locks: every step that changes the committed Task rows is
\* the commit of one move, after its last statement, and publishes all the
\* rows its transaction wrote.
C24_PublishedAtOnce ==
    [][ tasks' # tasks =>
          \E w \in Workers :
             /\ worker[w].pc = "commit" /\ worker'[w].pc = "done"
             /\ tasks' = View(w)
             /\ CrossColumn(worker[w]) =>
                   tasks'[worker[w].pk] = [column |-> worker[w].column_id,
                                           position |-> new_position(worker[w])]
      ]_vars

\* The workers create items in one container: all create columns of one
\* board, or all create tasks in one column.
SiblingCreates ==
    /\ \A w \in Workers : worker[w].op \in {"create_column", "create_task"}
    /\ \A v, w \in Workers :
          worker[v].op = worker[w].op /\ worker[v].container = worker[w].container

\* The position of the row a create request inserted.
Created(w) ==
    IF worker[w].op = "create_column"
    THEN columns[worker[w].pk].position
    ELSE tasks[worker[w].pk].position

\* C25: two concurrent creations in one container leave their new items at
\* distinct positions, whatever the interleaving of their steps.
C25_ConcurrentCreatesDistinct ==
    (SiblingCreates /\ \A w \in Workers : worker[w].pk # 0)
        => \A v, w \in Workers : v # w => Created(v) # Created(w)

\* The largest position of the container of worker w when the requests were
\* issued (-1 for an empty container).
IssuedMax(w) ==
    LET S == IF worker[w].op = "create_column"
             THEN ColumnPositions(issued.columns, worker[w].container)
             ELSE TaskPositions(issued.tasks, worker[w].container)
    IN IF S = {} THEN -1 ELSE Max(S)

\* C25 for the containers whose largest position was 1 or more, where a
\* creation served alone appends behind the last item.
C25_ConcurrentAppendsDistinct ==
    (SiblingCreates /\ \A w \in Workers : worker[w].pk # 0 /\ IssuedMax(w) >= 1)
        => \A v, w \in Workers : v # w => Created(v) # Created(w)

\* C26: every row of the activity log carries an action kind of
\* ActivityLog.ACTION_CHOICES.
C26_ActionsEnumerated ==
    \A i \in 1 .. Len(activity) : activity[i].action \in ACTION_CHOICES

\* C26 without the delete and archive handlers: every other row of the log
\* carries an enumerated action kind.
C26_OtherActionsEnumerated ==
    \A i \in 1 .. Len(activity) :
        activity[i].action \in
            ACTION_CHOICES \cup {"delete_board", "delete_column", "delete_task", "archive_task"}

\* C27: a successful move keeps the relative order of the items it does not
\* move: two siblings x, y other than the moved item with x before y are in
\* that order after move_column, and after move_task in the source and in the
\* target column.
C27_MoveKeepsOrderOfOthers ==
    [][ /\ (IsColumnMove /\ response'.status = HTTP_200_OK)
             => \A x, y \in DOMAIN columns \ {response'.pk} :
                   ( /\ columns[x].board = columns[y].board
                     /\ columns[x].position < columns[y].position )
                       => columns'[x].position < columns'[y].position
        /\ (IsTaskMove /\ response'.status = HTTP_200_OK)
             => \A x, y \in DOMAIN tasks \ {response'.pk} :
                   ( /\ tasks[x].column = tasks[y].column
                     /\ tasks[x].position < tasks[y].position )
                       => /\ tasks'[x].column = tasks'[y].column
                          /\ tasks'[x].position < tasks'[y].position
      ]_vars

\* The board of task t in the rows cols, tsks: task.column.board
BoardOfTask(cols, tsks, t) == cols[tsks[t].column].board

\* C28: move_task never changes the board of a task: a move whose target
\* column is a column of another board is rejected and changes no row.
C28_MoveKeepsBoard ==
    [][ IsTaskMove =>
          /\ BoardOfTask(columns', tasks', response'.pk)
                = BoardOfTask(columns, tasks, response'.pk)
          /\ ( /\ response'.column_id \in DOMAIN columns
               /\ columns[response'.column_id].board
                     # BoardOfTask(columns, tasks, response'.pk) )
                => /\ response'.status # HTTP_200_OK
                   /\ UNCHANGED <<columns, tasks, activity>>
      ]_vars

\* C28 for the moves the code does not reject wrongly: a move to a column of
\* the task's own board leaves the task on its board.
C28_SameBoardMoveKeepsBoard ==
    [][ ( /\ IsTaskMove
          /\ response'.column_id \in DOMAIN columns
          /\ columns[response'.column_id].board = BoardOfTask(columns, tasks, response'.pk) )
            => BoardOfTask(columns', tasks', response'.pk)
                  = BoardOfTask(columns, tasks, response'.pk)
      ]_vars

\* C29: a move touches only its own containers.  move_column writes no Task
\* row and no Column row of another board; move_task writes no Column row, no
\* Task row outside the source and the target column, and the column of no
\* task but the moved one; no move inserts or deletes a Column or Task row,
\* and a move request that fails writes nothing.
C29_MoveFrame ==
    [][ /\ response'.op \in {"move_column", "move_task"}
             => /\ DOMAIN columns' = DOMAIN columns
                /\ DOMAIN tasks' = DOMAIN tasks
                /\ UNCHANGED <<boards, attached, others>>
                /\ response'.status # HTTP_200_OK => UNCHANGED <<columns, tasks>>
        /\ IsColumnMove
             => /\ tasks' = tasks
                /\ \A c \in DOMAIN columns :
                      /\ columns'[c].board = columns[c].board
                      /\ columns[c].board # columns[response'.pk].board
                            => columns'[c] = columns[c]
        /\ IsTaskMove
             => /\ columns' = columns
                /\ \A t \in DOMAIN tasks :
                      /\ t # response'.pk => tasks'[t].column = tasks[t].column
                      /\ tasks[t].column \notin {tasks[response'.pk].column,
                                                  response'.column_id}
                            => tasks'[t] = tasks[t]
      ]_vars

\* C29 for concurrent moves: every step that changes committed Column or Task
\* rows is the commit of one move, and it writes within the containers of the
\* instance the move loaded and of its target.
C29_CommittedMoveFrame ==
    [][ (columns' # columns \/ tasks' # tasks) =>
          \E w \in Workers :
             /\ worker[w].pc = "commit" /\ worker'[w].pc # "commit"
             /\ DOMAIN columns' = DOMAIN columns
             /\ DOMAIN tasks' = DOMAIN tasks
             /\ IF worker[w].op = "move_column"
                THEN /\ tasks' = tasks
                     /\ \A c \in DOMAIN columns :
                           /\ columns'[c].board = columns[c].board
                           /\ columns[c].board # worker[w].instance.board
                                 => columns'[c] = columns[c]
                ELSE /\ columns' = columns
                     /\ \A t \in DOMAIN tasks \ {worker[w].pk} :
                           /\ tasks'[t].column = tasks[t].column
                           /\ tasks[t].column \notin {worker[w].instance.column,
                                                       worker[w].column_id}
                                 => tasks'[t] = tasks[t]
      ]_vars

\* C29 for a move served beside other requests: the commit of a move leaves
\* the number of Column and Task rows as it found it, and writes within the
\* containers of the instance the move loaded and of its target.
C29_ServedMoveFrame ==
    [][ \A w \in Workers :
          (worker[w].pc = "commit" /\ worker'[w].moved /\ ~worker[w].moved)
             => /\ DOMAIN columns' = DOMAIN columns
                /\ DOMAIN tasks' = DOMAIN tasks
                /\ IF worker[w].op = "move_column"
                   THEN /\ tasks' = tasks
                        /\ \A c \in DOMAIN columns :
                              columns[c].board # worker[w].instance.board
                                 => columns'[c] = columns[c]
                   ELSE /\ columns' = columns
                        /\ \A t \in DOMAIN tasks \ {worker[w].pk} :
                              /\ tasks'[t].column = tasks[t].column
                              /\ tasks[t].column \notin {worker[w].instance.column,
                                                          worker[w].column_id}
                                    => tasks'[t] = tasks[t]
      ]_vars

\* C30: every Column position and every Task position is a non-negative
\* integer in every state the create, move and delete requests reach.
C30_PositionsNonNegative ==
    /\ \A c \in DOMAIN columns : columns[c].position >= 0
    /\ \A t \in DOMAIN tasks : tasks[t].position >= 0

\* C30, the step: no request lowers the position of a row that is at 0.
C30_NoShiftBelowZero ==
    [][ /\ \A c \in DOMAIN columns \cap DOMAIN columns' :
              columns'[c].position < columns[c].position => columns[c].position >= 1
        /\ \A t \in DOMAIN tasks \cap DOMAIN tasks' :
              tasks'[t].position < tasks[t].position => tasks[t].position >= 1
      ]_vars

\* A column that had been moved to position 1 was shifted to position 0 by
\* the move of a sibling from 0 to 1.
C30_ShiftedDownToZero ==
    /\ Len(activity) = 5
    /\ activity[4].action = "move_column"
    /\ activity[5].action = "move_column"
    /\ activity[4].details.to_position = 1
    /\ activity[5].details.to_position = 1
    /\ activity[4].details.column # activity[5].details.column
    /\ activity[4].details.column \in DOMAIN columns
    /\ activity[5].details.column \in DOMAIN columns
    /\ columns[activity[4].details.column].board
          = columns[activity[5].details.column].board
    /\ columns[activity[4].details.column].position = 0
    /\ columns[activity[5].details.column].position = 1

====
